---- MODULE Spec2Model ----
(***************************************************************************)
(* Model of td/telegram/InlineQueriesManager.cpp: the inline query result  *)
(* cache (inline_query_results_), the single pending query slot, the       *)
(* rate-limited dispatch loop and the reference-counted release path.      *)
(*                                                                         *)
(* Time is discrete: one unit of `now' stands for one tick of Time::now(). *)
(* Every handler runs to completion at one instant (single actor).         *)
(***************************************************************************)
EXTENDS Integers, Sequences, FiniteSets, TLC

\* ---------------------------------------------------------------- bounds
MaxTime == 2          \* Time::now() ranges over 0..MaxTime
MaxRequests == 3      \* number of send_inline_query calls in one run
NumHashes == 2        \* number of distinct query_hash values
MaxCacheTime == 1     \* results->cache_time_ ranges over 0..MaxCacheTime
MaxQueryLen == 2      \* longest query text given to the hash
HashBits == 8         \* width of query_hash in the model (uint64 in the source)
MaxPromises == 2      \* promises waiting in resolve_recent_inline_bots_multipromise_

\* INLINE_QUERY_DELAY_MS * 1e-3, in ticks
INLINE_QUERY_DELAY == 2

Hashes == 1..NumHashes
CacheTimes == 0..MaxCacheTime
RejectReasons == {"is_bot", "no_bot_data", "not_inline"}

VARIABLES
  now,                                \* Time::now()
  inline_query_results_,              \* map query_hash -> InlineQueryResult
  pending_inline_query_,              \* unique_ptr<PendingInlineQuery>
  sent_query_,                        \* NetQueryRef (promise id of the handler, 0 = never set)
  handlers,                           \* GetInlineBotResultsQuery handlers awaiting on_result/on_error
  next_inline_query_time_,
  timeout_,                           \* actor timeout of InlineQueriesManager, -1 = none
  drop_inline_query_result_timeout_,  \* MultiTimeout: map query_hash -> deadline
  requests,                           \* history: one record per send_inline_query call (its promise)
  fatal,                              \* "none", or the CHECK that aborted the process
  ev,                                 \* history: what the last handler did
  last_dispatch_time,                 \* history: time of the previous remote call, -1 = none
  moved_out,                          \* history: result objects handed out as the original
  cast_negative,                      \* what static_cast<uint64> of a negative double gives in this build
  hash_calls,                         \* history: inputs and query_hash of the hash computations
  recently_used_bot_user_ids_,        \* vector<UserId>, most recently used first
  recently_used_bots_loaded_,         \* 0 = not loaded, 1 = resolve queries sent, 2 = loaded
  resolve_promise_count,              \* resolve_recent_inline_bots_multipromise_.promise_count()
  resolving,                          \* resolve queries of the multipromise are outstanding
  pmc_usernames,                      \* binlog pmc: "recently_used_inline_bot_usernames"
  pmc_ids,                            \* binlog pmc: "recently_used_inline_bots"
  bot_data,                           \* contacts manager: what is known of each user
  rev,                                \* history: the last operation on the recent bots
  round_trip                          \* history: the list that was saved before a restart

vars == <<now, inline_query_results_, pending_inline_query_, sent_query_, handlers,
          next_inline_query_time_, timeout_, drop_inline_query_result_timeout_,
          requests, fatal, ev, last_dispatch_time, moved_out,
          cast_negative, hash_calls,
          recently_used_bot_user_ids_, recently_used_bots_loaded_, resolve_promise_count,
          resolving, pmc_usernames, pmc_ids, bot_data, rev, round_trip>>

\* the variables of the result cache and the dispatcher
cache_vars == <<now, inline_query_results_, pending_inline_query_, sent_query_, handlers,
                next_inline_query_time_, timeout_, drop_inline_query_result_timeout_,
                requests, fatal, ev, last_dispatch_time, moved_out>>

\* the variables of the recently used bots
recent_vars == <<recently_used_bot_user_ids_, recently_used_bots_loaded_,
                 resolve_promise_count, resolving, pmc_usernames, pmc_ids, bot_data, rev,
                 round_trip>>

\* the variables of the query_hash computation
hash_vars == <<cast_negative, hash_calls>>

\* ------------------------------------------------------------ data types
\* nullptr for pending_inline_query_
NullQuery == [query_hash |-> 0, promise |-> 0]

\* mutant: the initializer's last two fields swapped
NewEntry_swapped == [results |-> 0, cache_expire_time |-> 1, pending_request_count |-> -1]

\* mutant: a new entry expires at time 0
NewEntry_zero_expiry == [results |-> 0, cache_expire_time |-> 0, pending_request_count |-> 1]

\* {nullptr, -1.0, 1}: the entry created at first admission
NewEntry == [results |-> 0, cache_expire_time |-> -1, pending_request_count |-> 1]

\* nothing returned by this handler
NoRet == [obj |-> 0, moved |-> FALSE, some |-> FALSE]

NoEv == [op |-> "init", h |-> 0, r |-> 0, reject |-> "none", fresh |-> FALSE, ct |-> 0,
         sup |-> 0, disp |-> 0, canc |-> 0, lost |-> 0, erased |-> {}, ret |-> NoRet]

\* map helpers (std::unordered_map erase / operator[])
MapErase(m, k) == [x \in (DOMAIN m) \ {k} |-> m[x]]
MapPut(m, k, v) == [x \in (DOMAIN m) \cup {k} |-> IF x = k THEN v ELSE m[x]]
EmptyMap == [x \in {} |-> 0]

\* The program state a handler works on, plus the trace of what it did.
State == [now |-> now,
          res |-> inline_query_results_,
          pend |-> pending_inline_query_,
          sent |-> sent_query_,
          handlers |-> handlers,
          next |-> next_inline_query_time_,
          timeout |-> timeout_,
          drop |-> drop_inline_query_result_timeout_,
          reqs |-> requests,
          fatal |-> fatal,
          sup |-> 0, disp |-> 0, canc |-> 0, lost |-> 0, erased |-> {}, ret |-> NoRet]

Fatal(s, what) == IF s.fatal = "none" THEN [s EXCEPT !.fatal = what] ELSE s

\* ------------------------------------------------------------- promises
\* Promise<Unit>::set_value / set_error on the promise of request p
set_value(s, p) ==
  [s EXCEPT !.reqs[p].completions = @ + 1, !.reqs[p].outcome = "value"]

set_error(s, p) ==
  [s EXCEPT !.reqs[p].completions = @ + 1, !.reqs[p].outcome = "error"]

\* ------------------------------------------------- conditions of the code
\* mutant: the comparison inverted
IsFresh_inverted(t, expire) == t > expire

\* Time::now() < it->second.cache_expire_time
IsFresh(t, expire) == t < expire

\* mutant: an entry expiring right now is dropped too
LeftTimeNegative_le(expire, t) == expire - t <= 0

\* left_time < 0, left_time = cache_expire_time - Time::now()
LeftTimeNegative(expire, t) == expire - t < 0

\* mutant: no rate limit
CanDispatch_always(t, next) == TRUE

\* now >= next_inline_query_time_
CanDispatch(t, next) == t >= next

\* now + INLINE_QUERY_DELAY_MS * 1e-3
NextQueryTime(t) == t + INLINE_QUERY_DELAY

\* !sent_query_.empty(): the weak reference still points to a live query
SentQueryAlive(s) == \E q \in s.handlers : q.promise = s.sent

\* ------------------------------------------------------ release of a claim
\* mutant: a timeout already set for the key is left as it is
decrease_pending_request_count_keep_timer(s, query_hash) ==
  IF s.fatal # "none" THEN s
  ELSE IF query_hash \notin DOMAIN s.res
  THEN Fatal(s, "decrease: CHECK(it != end)")
  ELSE LET it == s.res[query_hash] IN
    IF ~(it.pending_request_count > 0)
    THEN Fatal(s, "decrease: CHECK(pending_request_count > 0)")
    ELSE LET cnt == it.pending_request_count - 1 IN
      IF cnt = 0
      THEN IF LeftTimeNegative(it.cache_expire_time, s.now)
           THEN [s EXCEPT !.res = MapErase(@, query_hash),
                          !.erased = @ \cup {query_hash},
                          !.ret = [obj |-> it.results, moved |-> TRUE, some |-> TRUE]]
           ELSE [s EXCEPT !.res[query_hash].pending_request_count = cnt,
                          !.drop = IF query_hash \in DOMAIN @ THEN @
                                   ELSE MapPut(@, query_hash, it.cache_expire_time),
                          !.ret = [obj |-> it.results, moved |-> FALSE, some |-> TRUE]]
      ELSE [s EXCEPT !.res[query_hash].pending_request_count = cnt,
                     !.ret = [obj |-> it.results, moved |-> FALSE, some |-> TRUE]]

\* mutant: the entry is erased as soon as nobody holds it, expired or not
decrease_pending_request_count_erase_at_zero(s, query_hash) ==
  IF s.fatal # "none" THEN s
  ELSE IF query_hash \notin DOMAIN s.res
  THEN Fatal(s, "decrease: CHECK(it != end)")
  ELSE LET it == s.res[query_hash] IN
    IF ~(it.pending_request_count > 0)
    THEN Fatal(s, "decrease: CHECK(pending_request_count > 0)")
    ELSE LET cnt == it.pending_request_count - 1 IN
      IF cnt = 0
      THEN [s EXCEPT !.res = MapErase(@, query_hash),
                     !.erased = @ \cup {query_hash},
                     !.ret = [obj |-> it.results, moved |-> TRUE, some |-> TRUE]]
      ELSE [s EXCEPT !.res[query_hash].pending_request_count = cnt,
                     !.ret = [obj |-> it.results, moved |-> FALSE, some |-> TRUE]]

\* mutant: the two CHECKs are compiled out
decrease_pending_request_count_unchecked(s, query_hash) ==
  IF s.fatal # "none" \/ query_hash \notin DOMAIN s.res THEN s
  ELSE LET it == s.res[query_hash]
           cnt == it.pending_request_count - 1 IN
      IF cnt = 0 /\ LeftTimeNegative(it.cache_expire_time, s.now)
      THEN [s EXCEPT !.res = MapErase(@, query_hash),
                     !.erased = @ \cup {query_hash},
                     !.ret = [obj |-> it.results, moved |-> TRUE, some |-> TRUE]]
      ELSE [s EXCEPT !.res[query_hash].pending_request_count = cnt,
                     !.ret = [obj |-> it.results, moved |-> FALSE, some |-> TRUE]]

decrease_pending_request_count(s, query_hash) ==
  IF s.fatal # "none" THEN s
  ELSE IF query_hash \notin DOMAIN s.res
  THEN Fatal(s, "decrease: CHECK(it != end)")
  ELSE LET it == s.res[query_hash] IN
    IF ~(it.pending_request_count > 0)
    THEN Fatal(s, "decrease: CHECK(pending_request_count > 0)")
    ELSE LET cnt == it.pending_request_count - 1 IN
      IF cnt = 0
      THEN IF LeftTimeNegative(it.cache_expire_time, s.now)
           THEN [s EXCEPT !.res = MapErase(@, query_hash),
                          !.erased = @ \cup {query_hash},
                          !.ret = [obj |-> it.results, moved |-> TRUE, some |-> TRUE]]
           ELSE [s EXCEPT !.res[query_hash].pending_request_count = cnt,
                          !.drop = MapPut(@, query_hash, it.cache_expire_time),
                          !.ret = [obj |-> it.results, moved |-> FALSE, some |-> TRUE]]
      ELSE [s EXCEPT !.res[query_hash].pending_request_count = cnt,
                     !.ret = [obj |-> it.results, moved |-> FALSE, some |-> TRUE]]

\* --------------------------------------------------- response handling
\* mutant: the nullptr test inverted
on_get_inline_query_results_inverted(s, query_hash, results, cache_time) ==
  IF s.fatal # "none" THEN s
  ELSE IF results # 0
  THEN [decrease_pending_request_count(s, query_hash) EXCEPT !.ret = s.ret]
  ELSE IF query_hash \notin DOMAIN s.res
  THEN Fatal(s, "on_get_inline_query_results: CHECK(it != end)")
  ELSE [s EXCEPT !.res[query_hash].results = results,
                 !.res[query_hash].cache_expire_time = s.now + cache_time]

\* mutant: the expiry is the cache time alone, Time::now() is not added
on_get_inline_query_results_no_now(s, query_hash, results, cache_time) ==
  IF s.fatal # "none" THEN s
  ELSE IF results = 0
  THEN [decrease_pending_request_count(s, query_hash) EXCEPT !.ret = s.ret]
  ELSE IF query_hash \notin DOMAIN s.res
  THEN Fatal(s, "on_get_inline_query_results: CHECK(it != end)")
  ELSE [s EXCEPT !.res[query_hash].results = results,
                 !.res[query_hash].cache_expire_time = cache_time]

\* mutant: a failure is cached for one tick
on_get_inline_query_results_negcache(s, query_hash, results, cache_time) ==
  IF s.fatal # "none" THEN s
  ELSE IF results = 0
  THEN LET s1 == [decrease_pending_request_count(s, query_hash) EXCEPT !.ret = s.ret] IN
       IF s1.fatal = "none" /\ query_hash \in DOMAIN s1.res
       THEN [s1 EXCEPT !.res[query_hash].cache_expire_time = s.now + 1]
       ELSE s1
  ELSE IF query_hash \notin DOMAIN s.res
  THEN Fatal(s, "on_get_inline_query_results: CHECK(it != end)")
  ELSE [s EXCEPT !.res[query_hash].results = results,
                 !.res[query_hash].cache_expire_time = s.now + cache_time]

\* results = 0 is nullptr; otherwise the id of the result object received
on_get_inline_query_results(s, query_hash, results, cache_time) ==
  IF s.fatal # "none" THEN s
  ELSE IF results = 0
  THEN [decrease_pending_request_count(s, query_hash) EXCEPT !.ret = s.ret]
  ELSE IF query_hash \notin DOMAIN s.res
  THEN Fatal(s, "on_get_inline_query_results: CHECK(it != end)")
  ELSE [s EXCEPT !.res[query_hash].results = results,
                 !.res[query_hash].cache_expire_time = s.now + cache_time]

\* the handler (query_hash_, promise_) of the query with promise p
HandlerOf(s, p) == CHOOSE q \in s.handlers : q.promise = p

\* mutant: the answer is stored into every entry
on_result_broadcast(s, p, cache_time) ==
  LET q == HandlerOf(s, p)
      s1 == on_get_inline_query_results(s, q.query_hash, p, cache_time)
  IN IF s1.fatal # "none" THEN s1
     ELSE [set_value(s1, p) EXCEPT
             !.handlers = @ \ {q},
             !.res = [h \in DOMAIN @ |-> [@[h] EXCEPT !.results = p,
                                                     !.cache_expire_time = s.now + cache_time]]]

\* GetInlineBotResultsQuery::on_result with a well-formed answer
on_result(s, p, cache_time) ==
  LET q == HandlerOf(s, p)
      s1 == on_get_inline_query_results(s, q.query_hash, p, cache_time)
  IN IF s1.fatal # "none" THEN s1
     ELSE [set_value(s1, p) EXCEPT !.handlers = @ \ {q}]

\* mutant: the error is passed to the promise only
on_error_no_release(s, p) ==
  LET q == HandlerOf(s, p)
  IN [set_error(s, p) EXCEPT !.handlers = @ \ {q}]

\* GetInlineBotResultsQuery::on_error
on_error(s, p) ==
  LET q == HandlerOf(s, p)
      s1 == on_get_inline_query_results(s, q.query_hash, 0, 0)
  IN IF s1.fatal # "none" THEN s1
     ELSE [set_error(s1, p) EXCEPT !.handlers = @ \ {q}]

\* cancel_query(sent_query_): the cancelled query answers its handler with
\* NetQuery::Cancelled through on_error
cancel_query(s) == [on_error(s, s.sent) EXCEPT !.canc = s.sent]

\* ------------------------------------------------------ scheduling step
\* mutant: the query in flight is not cancelled
loop_no_cancel(s, input_user) ==
  IF s.fatal # "none" \/ s.pend = NullQuery THEN s
  ELSE IF CanDispatch(s.now, s.next)
  THEN IF input_user
       THEN [s EXCEPT !.handlers = @ \cup {s.pend},
                      !.sent = s.pend.promise,
                      !.disp = s.pend.promise,
                      !.next = NextQueryTime(s.now),
                      !.pend = NullQuery]
       ELSE [s EXCEPT !.pend = NullQuery,
                      !.lost = s.pend.promise,
                      !.reqs[s.pend.promise].destroyed = TRUE]
  ELSE IF s.timeout = -1
       THEN [s EXCEPT !.timeout = s.next]
       ELSE s

\* input_user is get_input_user(bot_user_id) != nullptr
loop(s, input_user) ==
  IF s.fatal # "none" \/ s.pend = NullQuery THEN s
  ELSE IF CanDispatch(s.now, s.next)
  THEN IF input_user
       THEN LET s1 == IF SentQueryAlive(s) THEN cancel_query(s) ELSE s IN
            IF s1.fatal # "none" THEN s1
            ELSE [s1 EXCEPT !.handlers = @ \cup {s.pend},
                            !.sent = s.pend.promise,
                            !.disp = s.pend.promise,
                            !.next = NextQueryTime(s.now),
                            !.pend = NullQuery]
       ELSE [s EXCEPT !.pend = NullQuery,
                      !.lost = s.pend.promise,
                      !.reqs[s.pend.promise].destroyed = TRUE]
  ELSE IF s.timeout = -1
       THEN [s EXCEPT !.timeout = s.next]
       ELSE s

\* ------------------------------------------------------------ admission
\* kind: "rejected" (refused before hashing), "fresh" (answered from the cache)
\* or "dispatch" (placed into pending_inline_query_)
NewRequest(h, kind) == [query_hash |-> h, kind |-> kind, outcome |-> "none",
                        completions |-> 0, released |-> FALSE, destroyed |-> FALSE]

\* mutant: pending_request_count++ forgotten
Admit_no_increment(s, query_hash) ==
  IF query_hash \in DOMAIN s.res
  THEN s
  ELSE [s EXCEPT !.res = MapPut(@, query_hash, NewEntry)]

\* mutant: the lookup always starts a new entry
Admit_recreate(s, query_hash) ==
  [s EXCEPT !.res = MapPut(@, query_hash, NewEntry)]

\* lines 871-880: lookup, count the claim, create the entry when absent
Admit(s, query_hash) ==
  IF query_hash \in DOMAIN s.res
  THEN [s EXCEPT !.res[query_hash].pending_request_count = @ + 1]
  ELSE [s EXCEPT !.res = MapPut(@, query_hash, NewEntry)]

\* mutant: the queued query's claim on its entry is not released
DropPending_untouched(s) ==
  IF s.pend # NullQuery
  THEN [set_error(s, s.pend.promise) EXCEPT !.sup = s.pend.promise]
  ELSE s

\* lines 882-886: the queued query is dropped
DropPending(s) ==
  IF s.pend # NullQuery
  THEN LET s1 == on_get_inline_query_results(s, s.pend.query_hash, 0, 0) IN
       IF s1.fatal # "none" THEN s1
       ELSE [set_error(s1, s.pend.promise) EXCEPT !.sup = s.pend.promise]
  ELSE s

\* reject: "none", or why the request is refused before it is hashed
\* mutant: a query for the fingerprint already queued joins the queued one
Enqueue_join(s, query_hash, p) ==
  IF s.pend # NullQuery /\ s.pend.query_hash = query_hash
  THEN s
  ELSE LET s1 == DropPending(s) IN
       IF s1.fatal # "none" THEN s1
       ELSE [s1 EXCEPT !.pend = [query_hash |-> query_hash, promise |-> p]]

\* lines 882-889: the new query takes the pending slot
Enqueue(s, query_hash, p) ==
  LET s1 == DropPending(s) IN
  IF s1.fatal # "none" THEN s1
  ELSE [s1 EXCEPT !.pend = [query_hash |-> query_hash, promise |-> p]]

\* mutant: the request is validated after the cache lookup
send_inline_query_late_validation(s, query_hash, reject, input_user) ==
  LET p == Len(s.reqs) + 1 IN
  IF reject # "none"
  THEN set_error(Admit([s EXCEPT !.reqs = Append(@, NewRequest(0, "rejected"))],
                       query_hash), p)
  ELSE IF query_hash \in DOMAIN s.res
          /\ IsFresh(s.now, s.res[query_hash].cache_expire_time)
       THEN set_value(Admit([s EXCEPT !.reqs = Append(@, NewRequest(query_hash, "fresh"))],
                            query_hash), p)
       ELSE loop(Enqueue(Admit([s EXCEPT !.reqs =
                                   Append(@, NewRequest(query_hash, "dispatch"))],
                               query_hash), query_hash, p), input_user)

\* mutant: a fresh entry does not answer the request
send_inline_query_always_dispatch(s, query_hash, reject, input_user) ==
  LET p == Len(s.reqs) + 1 IN
  IF reject # "none"
  THEN set_error([s EXCEPT !.reqs = Append(@, NewRequest(0, "rejected"))], p)
  ELSE loop(Enqueue(Admit([s EXCEPT !.reqs =
                              Append(@, NewRequest(query_hash, "dispatch"))],
                          query_hash), query_hash, p), input_user)

send_inline_query(s, query_hash, reject, input_user) ==
  LET p == Len(s.reqs) + 1 IN
  IF reject # "none"
  THEN set_error([s EXCEPT !.reqs = Append(@, NewRequest(0, "rejected"))], p)
  ELSE IF query_hash \in DOMAIN s.res
          /\ IsFresh(s.now, s.res[query_hash].cache_expire_time)
       THEN set_value(Admit([s EXCEPT !.reqs = Append(@, NewRequest(query_hash, "fresh"))],
                            query_hash), p)
       ELSE loop(Enqueue(Admit([s EXCEPT !.reqs =
                                   Append(@, NewRequest(query_hash, "dispatch"))],
                               query_hash), query_hash, p), input_user)

\* --------------------------------------------------------- eviction timer
\* mutant: the callback never erases
on_drop_inline_query_result_timeout_callback_no_erase(s, query_hash) ==
  IF query_hash \notin DOMAIN s.res
  THEN Fatal(s, "drop timeout: CHECK(it != end)")
  ELSE s

on_drop_inline_query_result_timeout_callback(s, query_hash) ==
  IF query_hash \notin DOMAIN s.res
  THEN Fatal(s, "drop timeout: CHECK(it != end)")
  ELSE LET it == s.res[query_hash] IN
    IF it.results = 0 THEN Fatal(s, "drop timeout: CHECK(results != nullptr)")
    ELSE IF ~(it.pending_request_count >= 0)
    THEN Fatal(s, "drop timeout: CHECK(pending_request_count >= 0)")
    ELSE IF it.pending_request_count = 0
    THEN [s EXCEPT !.res = MapErase(@, query_hash), !.erased = @ \cup {query_hash}]
    ELSE s

\* get_inline_query_results_object
get_inline_query_results_object(s, query_hash) ==
  decrease_pending_request_count(s, query_hash)

\* ---------------------------------------------------------------- actions
\* A handler's result becomes the next state; a failed CHECK aborts the
\* process: only `fatal' records it and nothing runs afterwards.
Commit(s, e) ==
  IF s.fatal # "none"
  THEN /\ fatal' = s.fatal
       /\ ev' = [e EXCEPT !.op = "abort"]
       /\ UNCHANGED <<now, inline_query_results_, pending_inline_query_, sent_query_,
                      handlers, next_inline_query_time_, timeout_,
                      drop_inline_query_result_timeout_, requests,
                      last_dispatch_time, moved_out>>
       /\ UNCHANGED <<hash_vars, recent_vars>>
  ELSE /\ UNCHANGED <<hash_vars, recent_vars>>
       /\ now' = s.now
       /\ inline_query_results_' = s.res
       /\ pending_inline_query_' = s.pend
       /\ sent_query_' = s.sent
       /\ handlers' = s.handlers
       /\ next_inline_query_time_' = s.next
       /\ timeout_' = s.timeout
       /\ drop_inline_query_result_timeout_' = s.drop
       /\ requests' = s.reqs
       /\ fatal' = "none"
       /\ ev' = [e EXCEPT !.sup = s.sup, !.disp = s.disp, !.canc = s.canc,
                          !.lost = s.lost, !.erased = s.erased]
       /\ last_dispatch_time' = IF s.disp # 0 THEN s.now ELSE last_dispatch_time
       /\ moved_out' = IF e.ret.some /\ e.ret.moved /\ e.ret.obj # 0
                       THEN moved_out \cup {e.ret.obj} ELSE moved_out

\* the manager after construction (lines 154-157)
CacheInit ==
  /\ now = 0
  /\ inline_query_results_ = EmptyMap
  /\ pending_inline_query_ = NullQuery
  /\ sent_query_ = 0
  /\ handlers = {}
  /\ next_inline_query_time_ = 0
  /\ timeout_ = -1
  /\ drop_inline_query_result_timeout_ = EmptyMap
  /\ requests = <<>>
  /\ fatal = "none"
  /\ ev = NoEv
  /\ last_dispatch_time = -1
  /\ moved_out = {}

\* no query_hash has been computed
HashIdle ==
  /\ cast_negative = "wrap"
  /\ hash_calls = <<>>

\* what the last operation on the recent bots was
NoRev == [op |-> "none", id |-> 0, before |-> <<>>, loaded |-> 0, ret |-> FALSE]

NoRoundTrip == [phase |-> "none", ids |-> <<>>]

\* the recent bots are not used
RecentIdle ==
  /\ recently_used_bot_user_ids_ = <<>>
  /\ recently_used_bots_loaded_ = 0
  /\ resolve_promise_count = 0
  /\ resolving = FALSE
  /\ pmc_usernames = <<>>
  /\ pmc_ids = <<>>
  /\ bot_data = <<>>
  /\ rev = NoRev
  /\ round_trip = NoRoundTrip

Init ==
  /\ CacheInit
  /\ HashIdle
  /\ RecentIdle

\* a caller submits an inline query
SendInlineQuery ==
  /\ fatal = "none"
  /\ Len(requests) < MaxRequests
  /\ \E h \in Hashes, reject \in RejectReasons \cup {"none"}, input_user \in BOOLEAN :
       LET s == send_inline_query(State, h, reject, input_user) IN
       Commit(s, [NoEv EXCEPT !.op = "send_inline_query",
                              !.h = IF reject = "none" THEN h ELSE 0,
                              !.r = Len(requests) + 1,
                              !.reject = reject,
                              !.fresh = s.reqs[Len(requests) + 1].outcome = "value"])

\* Actor::timeout_expired -> loop()
TimeoutExpired ==
  /\ fatal = "none"
  /\ timeout_ # -1
  /\ now >= timeout_
  /\ \E input_user \in BOOLEAN :
       Commit(loop([State EXCEPT !.timeout = -1], input_user),
              [NoEv EXCEPT !.op = "timeout_expired"])

\* the server answers a sent query
OnResult ==
  /\ fatal = "none"
  /\ \E q \in handlers, cache_time \in CacheTimes :
       Commit(on_result(State, q.promise, cache_time),
              [NoEv EXCEPT !.op = "on_result", !.h = q.query_hash, !.r = q.promise,
                           !.ct = cache_time])

\* a sent query fails
OnError ==
  /\ fatal = "none"
  /\ \E q \in handlers :
       Commit(on_error(State, q.promise),
              [NoEv EXCEPT !.op = "on_error", !.h = q.query_hash, !.r = q.promise])

\* a caller whose promise was set to a value fetches the results
GetInlineQueryResultsObject ==
  /\ fatal = "none"
  /\ \E r \in 1..Len(requests) :
       /\ requests[r].outcome = "value"
       /\ ~requests[r].released
       /\ LET s == get_inline_query_results_object(
                     [State EXCEPT !.reqs[r].released = TRUE], requests[r].query_hash)
          IN Commit(s, [NoEv EXCEPT !.op = "get_inline_query_results_object",
                                    !.h = requests[r].query_hash, !.r = r, !.ret = s.ret])

\* MultiTimeout delivers an expired key
DropTimeout ==
  /\ fatal = "none"
  /\ \E h \in DOMAIN drop_inline_query_result_timeout_ :
       /\ now >= drop_inline_query_result_timeout_[h]
       /\ Commit(on_drop_inline_query_result_timeout_callback(
                   [State EXCEPT !.drop = MapErase(@, h)], h),
                 [NoEv EXCEPT !.op = "drop_timeout", !.h = h])

\* the clock advances
Tick ==
  /\ fatal = "none"
  /\ now < MaxTime
  /\ now' = now + 1
  /\ ev' = [NoEv EXCEPT !.op = "tick"]
  /\ UNCHANGED <<inline_query_results_, pending_inline_query_, sent_query_, handlers,
                 next_inline_query_time_, timeout_, drop_inline_query_result_timeout_,
                 requests, fatal, last_dispatch_time, moved_out>>
  /\ UNCHANGED <<hash_vars, recent_vars>>

Next ==
  \/ SendInlineQuery
  \/ TimeoutExpired
  \/ OnResult
  \/ OnError
  \/ GetInlineQueryResultsObject
  \/ DropTimeout
  \/ Tick

Spec == Init /\ [][Next]_vars

\* ---------------------------------------------- release without a claim
\* a caller that has fetched its results calls get_inline_query_results_object
\* once more, when no claim is left on the fingerprint: no entry, or an entry
\* with pending_request_count 0
StrayRelease ==
  /\ fatal = "none"
  /\ \E r \in 1..Len(requests) :
       LET h == requests[r].query_hash IN
       /\ requests[r].released
       /\ h \in DOMAIN inline_query_results_
            => inline_query_results_[h].pending_request_count = 0
       /\ LET s == get_inline_query_results_object(State, h)
          IN Commit(s, [NoEv EXCEPT !.op = "stray_release", !.h = h, !.ret = s.ret])

ReleaseNext == Next \/ StrayRelease

SpecRelease == Init /\ [][ReleaseNext]_vars

\* ------------------------------------------------- query_hash (862-869)
\* Strings are sequences of character codes; a location is a pair of
\* coordinates in units of 1e-5 degree.
Space == 32
Letter == 97
Chars == {Space, Letter}
Strings(n) == UNION {[1..k -> Chars] : k \in 0..n}
Queries == Strings(MaxQueryLen)
Offsets == {<<>>, <<Letter>>}
Bots == {1, 2}
Coordinates == {-12, -6, 0, 6}
Locations == {[latitude |-> a, longitude |-> b] : a \in Coordinates, b \in {0, -6}}
CastModes == {"wrap", "saturate"}

\* 2^HashBits stands for 2^64
HashModulus == 2 ^ HashBits
Multiplier == 2023654985

\* trim(query): the text without leading and trailing spaces
RECURSIVE trim_left(_)
trim_left(str) ==
  IF str # <<>> /\ Head(str) = Space THEN trim_left(Tail(str)) ELSE str

RECURSIVE trim_right(_)
trim_right(str) ==
  IF str # <<>> /\ str[Len(str)] = Space
  THEN trim_right(SubSeq(str, 1, Len(str) - 1))
  ELSE str

trim(str) == trim_right(trim_left(str))

\* std::hash<std::string>: a fixed function of the characters
RECURSIVE StdHash(_)
StdHash(str) ==
  IF str = <<>> THEN 5
  ELSE (StdHash(SubSeq(str, 1, Len(str) - 1)) * 33 + str[Len(str)]) % HashModulus

\* coordinate * 1e4, truncated toward zero by the conversion to an integer
TimesTenThousand(c) == IF c >= 0 THEN c \div 10 ELSE -((-c) \div 10)

\* static_cast<uint64>(double): undefined for a negative value; a build
\* either wraps modulo 2^64 or saturates at 0
CastToUint64(x, mode) ==
  IF x >= 0 \/ mode = "wrap" THEN x % HashModulus ELSE 0

\* query_hash = query_hash * 2023654985u + x, in unsigned arithmetic
HashStep(h, x) == (h * (Multiplier % HashModulus) + x) % HashModulus

\* mutant: the query text is hashed as given
QueryHash_untrimmed(query, bot_user_id, offset, user_location, need_location, mode) ==
  LET h1 == StdHash(query)
      h2 == HashStep(h1, bot_user_id % HashModulus)
      h3 == HashStep(h2, StdHash(offset))
      h4 == HashStep(h3, CastToUint64(TimesTenThousand(user_location.latitude), mode))
      h5 == HashStep(h4, CastToUint64(TimesTenThousand(user_location.longitude), mode))
  IN (IF need_location THEN h5 ELSE h3) % (HashModulus \div 2)

\* mutant: the location is hashed for every bot
QueryHash_always_location(query, bot_user_id, offset, user_location, need_location, mode) ==
  LET h1 == StdHash(trim(query))
      h2 == HashStep(h1, bot_user_id % HashModulus)
      h3 == HashStep(h2, StdHash(offset))
      h4 == HashStep(h3, CastToUint64(TimesTenThousand(user_location.latitude), mode))
      h5 == HashStep(h4, CastToUint64(TimesTenThousand(user_location.longitude), mode))
  IN h5 % (HashModulus \div 2)

\* lines 862-869; the final mask clears the top bit
QueryHash(query, bot_user_id, offset, user_location, need_location, mode) ==
  LET h1 == StdHash(trim(query))
      h2 == HashStep(h1, bot_user_id % HashModulus)
      h3 == HashStep(h2, StdHash(offset))
      h4 == HashStep(h3, CastToUint64(TimesTenThousand(user_location.latitude), mode))
      h5 == HashStep(h4, CastToUint64(TimesTenThousand(user_location.longitude), mode))
  IN (IF need_location THEN h5 ELSE h3) % (HashModulus \div 2)

\* the build fixes the outcome of the undefined conversion
HashInit ==
  /\ CacheInit
  /\ RecentIdle
  /\ cast_negative \in CastModes
  /\ hash_calls = <<>>

\* send_inline_query computes the hash of a valid request
ComputeQueryHash ==
  /\ Len(hash_calls) < 2
  /\ \E query \in Queries, bot_user_id \in Bots, offset \in Offsets,
        user_location \in Locations, need_location \in BOOLEAN :
       hash_calls' = Append(hash_calls,
          [query |-> query, bot_user_id |-> bot_user_id, offset |-> offset,
           user_location |-> user_location, need_location |-> need_location,
           query_hash |-> QueryHash(query, bot_user_id, offset, user_location,
                                    need_location, cast_negative)])
  /\ UNCHANGED <<cache_vars, recent_vars, cast_negative>>

HashNext == ComputeQueryHash

SpecHash == HashInit /\ [][HashNext]_vars

\* ------------------------------------------------ recently used bots
MAX_RECENT_INLINE_BOTS == 3
NumBots == 4
BotIds == 1..NumBots
\* the users whose data changes during a run
FlakyBots == {1}

Comma == 44
Digit(d) == 48 + d

\* to_string(int32), for a non-negative number
RECURSIVE to_string(_)
to_string(n) ==
  IF n < 10 THEN <<Digit(n)>> ELSE to_string(n \div 10) \o <<Digit(n % 10)>>

\* to_integer<int32>: the value of the leading decimal digits
RECURSIVE to_integer_from(_, _)
to_integer_from(str, acc) ==
  IF str = <<>> \/ Head(str) < Digit(0) \/ Head(str) > Digit(9)
  THEN acc
  ELSE to_integer_from(Tail(str), acc * 10 + (Head(str) - Digit(0)))

to_integer(str) == to_integer_from(str, 0)

\* position of the first delimiter in str, 0 = none
RECURSIVE find_char(_, _, _)
find_char(str, c, i) ==
  IF i > Len(str) THEN 0
  ELSE IF str[i] = c THEN i
  ELSE find_char(str, c, i + 1)

\* the loop of full_split, entered with a non-empty or a remaining string
RECURSIVE full_split_loop(_, _)
full_split_loop(str, delimiter) ==
  LET pos == find_char(str, delimiter, 1) IN
  IF pos = 0 THEN <<str>>
  ELSE <<SubSeq(str, 1, pos - 1)>>
         \o full_split_loop(SubSeq(str, pos + 1, Len(str)), delimiter)

\* full_split(s, ','): no part for the empty string
full_split(str, delimiter) ==
  IF str = <<>> THEN <<>> ELSE full_split_loop(str, delimiter)

RECURSIVE Reverse(_)
Reverse(seq) ==
  IF seq = <<>> THEN <<>> ELSE Reverse(Tail(seq)) \o <<Head(seq)>>

\* position of x in seq, 0 = not found (std::find)
RECURSIVE IndexOf(_, _, _)
IndexOf(seq, x, i) ==
  IF i > Len(seq) THEN 0
  ELSE IF seq[i] = x THEN i
  ELSE IndexOf(seq, x, i + 1)

\* contacts manager: a user it does not know
UnknownUser == [have_user |-> FALSE, username |-> <<>>, is_inline |-> FALSE]
ShortName(id) == <<Letter + id>>
LongName(id) == <<Letter, Letter + id>>
InlineBot(name) == [have_user |-> TRUE, username |-> name, is_inline |-> TRUE]
\* what the contacts manager may hold for user id
BotStates(id) ==
  {UnknownUser,
   InlineBot(<<>>),
   InlineBot(ShortName(id)),
   InlineBot(LongName(id)),
   [have_user |-> TRUE, username |-> ShortName(id), is_inline |-> FALSE]}

have_user(bd, user_id) == user_id \in DOMAIN bd /\ bd[user_id].have_user
get_user_username(bd, user_id) ==
  IF have_user(bd, user_id) THEN bd[user_id].username ELSE <<>>
\* resolve_dialog_username: the known user of that name, 0 = none
resolve_dialog_username(bd, name) ==
  IF name # <<>> /\ \E id \in DOMAIN bd : bd[id].have_user /\ bd[id].username = name
  THEN CHOOSE id \in DOMAIN bd : bd[id].have_user /\ bd[id].username = name
  ELSE 0

\* the tracker: list, load state, multipromise, persisted strings
RecentState ==
  [ids |-> recently_used_bot_user_ids_, loaded |-> recently_used_bots_loaded_,
   promises |-> resolve_promise_count, resolving |-> resolving,
   pmc_usernames |-> pmc_usernames, pmc_ids |-> pmc_ids, ret |-> FALSE]

\* the guards of update_bot_usage (lines 1757-1769)
CanUse(ids, bot_user_id, bd) ==
  /\ bot_user_id > 0
  /\ ~(ids # <<>> /\ ids[1] = bot_user_id)
  /\ have_user(bd, bot_user_id)
  /\ bd[bot_user_id].username # <<>>
  /\ bd[bot_user_id].is_inline

\* std::rotate(begin, it, it + 1): the element at pos moves to the front
RotateToFront(ids, pos) ==
  <<ids[pos]>> \o SubSeq(ids, 1, pos - 1) \o SubSeq(ids, pos + 1, Len(ids))

\* mutant: a new bot is always appended
update_bot_usage_unbounded(ids, bot_user_id, bd) ==
  IF ~CanUse(ids, bot_user_id, bd) THEN ids
  ELSE LET pos == IndexOf(ids, bot_user_id, 1) IN
       IF pos = 0 THEN <<bot_user_id>> \o ids ELSE RotateToFront(ids, pos)

\* mutant: at capacity the first element is overwritten
update_bot_usage_evict_front(ids, bot_user_id, bd) ==
  IF ~CanUse(ids, bot_user_id, bd) THEN ids
  ELSE LET pos == IndexOf(ids, bot_user_id, 1) IN
       IF pos = 0
       THEN IF Len(ids) = MAX_RECENT_INLINE_BOTS
            THEN <<bot_user_id>> \o Tail(ids)
            ELSE <<bot_user_id>> \o ids
       ELSE RotateToFront(ids, pos)

\* mutant: a bot found in the list changes places with the first one
update_bot_usage_swap(ids, bot_user_id, bd) ==
  IF ~CanUse(ids, bot_user_id, bd) THEN ids
  ELSE LET pos == IndexOf(ids, bot_user_id, 1) IN
       IF pos = 0
       THEN IF Len(ids) = MAX_RECENT_INLINE_BOTS
            THEN <<bot_user_id>> \o SubSeq(ids, 1, Len(ids) - 1)
            ELSE <<bot_user_id>> \o ids
       ELSE [ids EXCEPT ![1] = bot_user_id, ![pos] = ids[1]]

\* mutant: a new bot stays where it was written, at the back
update_bot_usage_no_rotate(ids, bot_user_id, bd) ==
  IF ~CanUse(ids, bot_user_id, bd) THEN ids
  ELSE LET pos == IndexOf(ids, bot_user_id, 1) IN
       IF pos = 0
       THEN IF Len(ids) = MAX_RECENT_INLINE_BOTS
            THEN [ids EXCEPT ![Len(ids)] = bot_user_id]
            ELSE Append(ids, bot_user_id)
       ELSE RotateToFront(ids, pos)

\* mutant: at capacity the element before the last one is overwritten
update_bot_usage_evict_second_last(ids, bot_user_id, bd) ==
  IF ~CanUse(ids, bot_user_id, bd) THEN ids
  ELSE LET pos == IndexOf(ids, bot_user_id, 1) IN
       IF pos = 0
       THEN IF Len(ids) = MAX_RECENT_INLINE_BOTS
            THEN RotateToFront([ids EXCEPT ![Len(ids) - 1] = bot_user_id], Len(ids) - 1)
            ELSE <<bot_user_id>> \o ids
       ELSE RotateToFront(ids, pos)

\* update_bot_usage: the new list; it returns true iff the list changed
update_bot_usage(ids, bot_user_id, bd) ==
  IF ~CanUse(ids, bot_user_id, bd) THEN ids
  ELSE LET pos == IndexOf(ids, bot_user_id, 1)
           grown == IF pos # 0 THEN ids
                    ELSE IF Len(ids) = MAX_RECENT_INLINE_BOTS
                         THEN [ids EXCEPT ![Len(ids)] = bot_user_id]
                         ELSE Append(ids, bot_user_id)
           it == IF pos # 0 THEN pos ELSE Len(grown)
       IN RotateToFront(grown, it)

\* the loop of save_recently_used_bots (lines 1633-1640)
RECURSIVE save_loop(_, _, _, _)
save_loop(ids, bd, value, value_ids) ==
  IF ids = <<>> THEN [value |-> value, value_ids |-> value_ids]
  ELSE LET sep == IF value # <<>> THEN <<Comma>> ELSE <<>> IN
       save_loop(Tail(ids), bd,
                 value \o sep \o get_user_username(bd, Head(ids)),
                 value_ids \o sep \o to_string(Head(ids)))

\* mutant: the ids are written back to front
save_recently_used_bots_reversed(s, bd) ==
  IF s.loaded < 2 THEN s
  ELSE LET v == save_loop(Reverse(s.ids), bd, <<>>, <<>>) IN
       [s EXCEPT !.pmc_usernames = v.value, !.pmc_ids = v.value_ids]

save_recently_used_bots(s, bd) ==
  IF s.loaded < 2 THEN s
  ELSE LET v == save_loop(s.ids, bd, <<>>, <<>>) IN
       [s EXCEPT !.pmc_usernames = v.value, !.pmc_ids = v.value_ids]

\* lines 1677-1684: the saved ids are used again, as given
RECURSIVE replay_ids(_, _, _)
replay_ids(ids, strs, bd) ==
  IF strs = <<>> THEN ids
  ELSE LET user_id == to_integer(Head(strs)) IN
       replay_ids(IF have_user(bd, user_id) THEN update_bot_usage(ids, user_id, bd) ELSE ids,
                  Tail(strs), bd)

\* mutant: each resolved bot is put behind the ones used before it
RECURSIVE replay_usernames_append(_, _, _)
replay_usernames_append(ids, names, bd) ==
  IF names = <<>> THEN ids
  ELSE LET user_id == resolve_dialog_username(bd, Head(names)) IN
       replay_usernames_append(
         IF user_id # 0 /\ CanUse(ids, user_id, bd) /\ IndexOf(ids, user_id, 1) = 0
         THEN Append(ids, user_id) ELSE ids,
         Tail(names), bd)

\* lines 1670-1675: the saved usernames are resolved and used again
RECURSIVE replay_usernames(_, _, _)
replay_usernames(ids, names, bd) ==
  IF names = <<>> THEN ids
  ELSE LET user_id == resolve_dialog_username(bd, Head(names)) IN
       replay_usernames(IF user_id # 0 THEN update_bot_usage(ids, user_id, bd) ELSE ids,
                        Tail(names), bd)

\* mutant: the bots used before the load are put in front as they are
RECURSIVE replay_used_prepend(_, _, _)
replay_used_prepend(ids, used, bd) ==
  IF used = <<>> THEN ids
  ELSE replay_used_prepend(<<Head(used)>> \o ids, Tail(used), bd)

\* lines 1686-1688
RECURSIVE replay_used(_, _, _)
replay_used(ids, used, bd) ==
  IF used = <<>> THEN ids
  ELSE replay_used(update_bot_usage(ids, Head(used), bd), Tail(used), bd)

\* load_recently_used_bots; ret is its return value
load_recently_used_bots(s, bd) ==
  LET bot_ids == full_split(s.pmc_ids, Comma)
      bot_usernames == full_split(s.pmc_usernames, Comma)
  IN
  IF s.loaded >= 2 THEN [s EXCEPT !.ret = TRUE]
  ELSE IF bot_ids = <<>> /\ bot_usernames = <<>>
  THEN LET s1 == [s EXCEPT !.loaded = 2, !.ret = TRUE] IN
       IF s.ids # <<>> THEN save_recently_used_bots(s1, bd) ELSE s1
  ELSE IF s.loaded = 1 /\ s.promises = 0
  THEN LET newly_used_bots == s.ids
           saved == IF bot_ids = <<>>
                    THEN replay_usernames(<<>>, Reverse(bot_usernames), bd)
                    ELSE replay_ids(<<>>, Reverse(bot_ids), bd)
           merged == replay_used(saved, Reverse(newly_used_bots), bd)
           s1 == [s EXCEPT !.ids = merged, !.loaded = 2, !.ret = TRUE]
       IN IF newly_used_bots # <<>> \/ (bot_ids = <<>> /\ bot_usernames # <<>>)
          THEN save_recently_used_bots(s1, bd)
          ELSE s1
  ELSE [s EXCEPT !.promises = @ + 1,
                 !.resolving = IF s.loaded = 0 THEN TRUE ELSE @,
                 !.loaded = 1,
                 !.ret = FALSE]

\* lines 438-440 of get_inline_message_content
use_bot(s, bot_user_id, bd) ==
  LET ids == update_bot_usage(s.ids, bot_user_id, bd) IN
  IF ids # s.ids
  THEN save_recently_used_bots([s EXCEPT !.ids = ids, !.ret = TRUE], bd)
  ELSE [s EXCEPT !.ret = FALSE]

remove_recent_inline_bot(s, bot_user_id, bd) ==
  LET pos == IndexOf(s.ids, bot_user_id, 1) IN
  IF pos # 0
  THEN save_recently_used_bots(
         [s EXCEPT !.ids = SubSeq(s.ids, 1, pos - 1) \o SubSeq(s.ids, pos + 1, Len(s.ids)),
                   !.ret = TRUE], bd)
  ELSE [s EXCEPT !.ret = TRUE]

\* the tracker's next state and the record of the operation
CommitRecent(s, op, id) ==
  /\ recently_used_bot_user_ids_' = s.ids
  /\ recently_used_bots_loaded_' = s.loaded
  /\ resolve_promise_count' = s.promises
  /\ resolving' = s.resolving
  /\ pmc_usernames' = s.pmc_usernames
  /\ pmc_ids' = s.pmc_ids
  /\ rev' = [op |-> op, id |-> id, before |-> recently_used_bot_user_ids_,
             loaded |-> recently_used_bots_loaded_, ret |-> s.ret]
  /\ UNCHANGED <<cache_vars, hash_vars, bot_data, round_trip>>

\* every user is a known inline bot with its short username
AllInline == [id \in BotIds |-> InlineBot(ShortName(id))]

\* what an earlier run may have left in the binlog: the save of a list, or
\* the usernames alone as written by a legacy version
PersistedAtStart ==
  LET saved(ids) == save_loop(ids, AllInline, <<>>, <<>>) IN
  {[usernames |-> saved(ids).value, ids |-> saved(ids).value_ids] :
      ids \in {<<>>, <<1, 2>>, <<2, 3, 1>>}}
  \cup {[usernames |-> saved(<<1, 2>>).value, ids |-> <<>>]}

RecentInit ==
  /\ CacheInit
  /\ HashIdle
  /\ recently_used_bot_user_ids_ = <<>>
  /\ recently_used_bots_loaded_ = 0
  /\ resolve_promise_count = 0
  /\ resolving = FALSE
  /\ \E p \in PersistedAtStart : pmc_usernames = p.usernames /\ pmc_ids = p.ids
  /\ bot_data = AllInline
  /\ rev = NoRev
  /\ round_trip = NoRoundTrip

\* get_inline_message_content for a result of bot id (0: no valid bot)
GetInlineMessageContent ==
  \E id \in BotIds \cup {0} :
     CommitRecent(use_bot(RecentState, id, bot_data), "use", id)

RemoveRecentInlineBot ==
  \E id \in BotIds :
     CommitRecent(remove_recent_inline_bot(RecentState, id, bot_data), "remove", id)

\* load_recently_used_bots would add a promise to the multipromise
LoadWaits ==
  /\ recently_used_bots_loaded_ < 2
  /\ ~(pmc_ids = <<>> /\ pmc_usernames = <<>>)
  /\ ~(recently_used_bots_loaded_ = 1 /\ resolve_promise_count = 0)

GetRecentInlineBots ==
  /\ LoadWaits => resolve_promise_count < MaxPromises
  /\ CommitRecent(load_recently_used_bots(RecentState, bot_data), "get_recent", 0)

AfterGetDifference ==
  /\ recently_used_bots_loaded_ < 2
  /\ LoadWaits => resolve_promise_count < MaxPromises
  /\ CommitRecent(load_recently_used_bots(RecentState, bot_data), "after_get_difference", 0)

\* all resolve queries have finished: the multipromise sets its promises
ResolveFinished ==
  /\ resolving
  /\ CommitRecent([RecentState EXCEPT !.resolving = FALSE, !.promises = 0], "resolved", 0)

\* the contacts manager learns something new about a user
SetBotData ==
  \E id \in FlakyBots : \E st \in BotStates(id) :
     /\ st # bot_data[id]
     /\ bot_data' = [bot_data EXCEPT ![id] = st]
     /\ rev' = [NoRev EXCEPT !.op = "bot_data", !.id = id,
                             !.before = recently_used_bot_user_ids_,
                             !.loaded = recently_used_bots_loaded_]
     /\ UNCHANGED <<cache_vars, hash_vars, recently_used_bot_user_ids_,
                    recently_used_bots_loaded_, resolve_promise_count, resolving,
                    pmc_usernames, pmc_ids, round_trip>>

RecentNext ==
  \/ GetInlineMessageContent
  \/ RemoveRecentInlineBot
  \/ GetRecentInlineBots
  \/ AfterGetDifference
  \/ ResolveFinished
  \/ SetBotData

SpecRecent == RecentInit /\ [][RecentNext]_vars

\* ---------------------------------------------- save, restart, load
\* the lists the tracker can hold: no id twice, at most MAX_RECENT_INLINE_BOTS
RecentLists ==
  {ids \in UNION {[1..k -> BotIds] : k \in 0..MAX_RECENT_INLINE_BOTS} :
      \A i, j \in 1..Len(ids) : ids[i] = ids[j] => i = j}

\* a loaded tracker with any list; every user is an inline bot with a username
RoundTripInit ==
  /\ CacheInit
  /\ HashIdle
  /\ recently_used_bot_user_ids_ \in RecentLists
  /\ recently_used_bots_loaded_ = 2
  /\ resolve_promise_count = 0
  /\ resolving = FALSE
  /\ pmc_usernames = <<>>
  /\ pmc_ids = <<>>
  /\ bot_data \in [BotIds -> UNION {{InlineBot(ShortName(b)), InlineBot(LongName(b))} :
                                      b \in BotIds}]
  /\ \A b \in BotIds : bot_data[b].username \in {ShortName(b), LongName(b)}
  /\ rev = NoRev
  /\ round_trip = [phase |-> "start", ids |-> <<>>]

SaveRecentlyUsedBots ==
  /\ round_trip.phase = "start"
  /\ round_trip' = [phase |-> "saved", ids |-> recently_used_bot_user_ids_]
  /\ LET s == save_recently_used_bots(RecentState, bot_data) IN
       /\ pmc_usernames' = s.pmc_usernames
       /\ pmc_ids' = s.pmc_ids
  /\ rev' = [NoRev EXCEPT !.op = "save", !.before = recently_used_bot_user_ids_,
                          !.loaded = recently_used_bots_loaded_]
  /\ UNCHANGED <<cache_vars, hash_vars, recently_used_bot_user_ids_,
                 recently_used_bots_loaded_, resolve_promise_count, resolving, bot_data>>

\* the process ends and a new manager is constructed over the same binlog
Restart ==
  /\ round_trip.phase = "saved"
  /\ round_trip' = [round_trip EXCEPT !.phase = "restarted"]
  /\ recently_used_bot_user_ids_' = <<>>
  /\ recently_used_bots_loaded_' = 0
  /\ resolve_promise_count' = 0
  /\ resolving' = FALSE
  /\ rev' = [NoRev EXCEPT !.op = "restart", !.before = recently_used_bot_user_ids_,
                          !.loaded = recently_used_bots_loaded_]
  /\ UNCHANGED <<cache_vars, hash_vars, pmc_usernames, pmc_ids, bot_data>>

RoundTripNext ==
  \/ SaveRecentlyUsedBots
  \/ Restart
  \/ round_trip.phase = "restarted" /\ GetRecentInlineBots
  \/ round_trip.phase = "restarted" /\ ResolveFinished

SpecRoundTrip == RoundTripInit /\ [][RoundTripNext]_vars

\* =================================================================== claims
PromisesOf(hs) == {q.promise : q \in hs}

\* the step is a send_inline_query that passed validation, for fingerprint h
IsAdmissionOf(h) ==
  /\ Len(requests') = Len(requests) + 1
  /\ requests'[Len(requests')].query_hash = h

\* the step is a send_inline_query that placed a new query into the pending slot
IsDispatchAdmission ==
  /\ Len(requests') = Len(requests) + 1
  /\ requests'[Len(requests')].kind = "dispatch"

\* the step is the fetch of the results by the caller of request r
IsReleaseOf(r) == ~requests[r].released /\ requests'[r].released

\* requests waiting in the pending slot according to the history
QueuedRequests ==
  {r \in 1..Len(requests) :
     /\ requests[r].kind = "dispatch"
     /\ requests[r].outcome = "none"
     /\ ~requests[r].destroyed
     /\ r \notin PromisesOf(handlers)}

\* C1: every entry of the cache map has pending_request_count >= 0.
PendingCountNonNegative ==
  \A h \in DOMAIN inline_query_results_ :
     inline_query_results_[h].pending_request_count >= 0

\* a release has brought an entry's count to 0 and the entry is kept
W_PendingCountZero ==
  /\ ev.op = "get_inline_query_results_object"
  /\ ev.h \in DOMAIN inline_query_results_
  /\ inline_query_results_[ev.h].pending_request_count = 0

\* C2: at most one remote call is outstanding and at most one request is
\* queued in the pending slot.
SingleFlight ==
  /\ Cardinality(handlers) <= 1
  /\ Cardinality(QueuedRequests) <= 1
  /\ QueuedRequests \subseteq {pending_inline_query_.promise}

\* one call in flight and one request queued behind it
W_InFlightAndQueued ==
  /\ handlers # {}
  /\ pending_inline_query_ # NullQuery

\* C3: every admitted request's promise is completed exactly once: a request
\* still held (queued or in flight) has no completion yet, every other
\* request has exactly one.
ExactlyOneCompletion ==
  \A r \in 1..Len(requests) :
     IF r = pending_inline_query_.promise \/ r \in PromisesOf(handlers)
     THEN requests[r].completions = 0
     ELSE requests[r].completions = 1

\* C4: an admission that finds a fresh entry completes the caller with
\* success, adds one to the entry's count and leaves the pending slot, the
\* query in flight, next_inline_query_time_ and the wake-up timer alone.
FreshHitFrame ==
  [][\A h \in Hashes :
       (/\ IsAdmissionOf(h)
        /\ h \in DOMAIN inline_query_results_
        /\ now < inline_query_results_[h].cache_expire_time)
       => /\ requests'[Len(requests')].outcome = "value"
          /\ requests'[Len(requests')].completions = 1
          /\ inline_query_results_' =
               [inline_query_results_ EXCEPT ![h].pending_request_count = @ + 1]
          /\ UNCHANGED <<pending_inline_query_, sent_query_, handlers,
                         next_inline_query_time_, timeout_>>]_vars

\* a fresh hit was answered while another query was in flight
W_FreshHit ==
  /\ ev.op = "send_inline_query"
  /\ ev.fresh
  /\ handlers # {}

\* C5: the caller's release erases the entry iff the count drops to 0 and
\* cache_expire_time - now < 0; exactly then the stored object itself is
\* returned, otherwise the entry stays and a copy is returned; no object is
\* returned after it was handed out as the original.
ReleaseErasesIff ==
  [][\A r \in 1..Len(requests) :
       IsReleaseOf(r) =>
         LET h == requests[r].query_hash
             e == inline_query_results_[h]
             expired == /\ e.pending_request_count = 1
                        /\ e.cache_expire_time - now < 0
         IN /\ (h \notin DOMAIN inline_query_results_') <=> expired
            /\ ev'.ret.some
            /\ ev'.ret.obj = e.results
            /\ ev'.ret.moved <=> expired
            /\ ~expired => inline_query_results_'[h] =
                             [e EXCEPT !.pending_request_count = @ - 1]
            /\ ev'.ret.obj # 0 => ev'.ret.obj \notin moved_out]_vars

\* the last holder released an expired entry and got the stored object
W_ReleaseMoved ==
  /\ ev.op = "get_inline_query_results_object"
  /\ ev.ret.moved
  /\ ev.ret.obj # 0
  /\ ev.h \notin DOMAIN inline_query_results_

\* C6 as stated: an entry leaves the map only in the caller's release or in
\* the eviction timer callback.
OnlyReleaseErases ==
  [][\A h \in DOMAIN inline_query_results_ :
       h \notin DOMAIN inline_query_results_'
       => /\ ev'.op \in {"get_inline_query_results_object", "drop_timeout"}
          /\ ev'.h = h]_vars

\* C6 amended: an entry leaves the map only in the caller's release, in the
\* eviction timer callback, or in a step that fails a request for that
\* fingerprint (supersession, cancellation, remote error).
ErasureOnlyByReleaseOrFailure ==
  [][\A h \in DOMAIN inline_query_results_ :
       h \notin DOMAIN inline_query_results_'
       => \/ \E r \in 1..Len(requests) : IsReleaseOf(r) /\ requests[r].query_hash = h
          \/ /\ h \in DOMAIN drop_inline_query_result_timeout_
             /\ h \notin DOMAIN drop_inline_query_result_timeout_'
             /\ inline_query_results_[h].pending_request_count = 0
             /\ requests' = requests
          \/ \E r \in 1..Len(requests) :
               /\ requests[r].query_hash = h
               /\ requests[r].outcome = "none"
               /\ requests'[r].outcome = "error"]_vars

\* a supersession erased the entry of the superseded request
W_SupersessionErased ==
  /\ ev.op = "send_inline_query"
  /\ ev.sup # 0
  /\ requests[ev.sup].query_hash \in ev.erased

\* C7: while a caller admitted for F has neither released nor been failed,
\* entry F exists, and no lookup in the release or the success path fails.
EntryExistsForHolders ==
  /\ \A r \in 1..Len(requests) :
        (/\ requests[r].kind \in {"fresh", "dispatch"}
         /\ requests[r].outcome # "error"
         /\ ~requests[r].released)
        => requests[r].query_hash \in DOMAIN inline_query_results_
  /\ fatal \notin {"decrease: CHECK(it != end)",
                   "on_get_inline_query_results: CHECK(it != end)"}

\* one holder released an expired entry while another holder keeps it alive
W_HolderKeepsEntry ==
  /\ ev.op = "get_inline_query_results_object"
  /\ ev.h \in DOMAIN inline_query_results_
  /\ inline_query_results_[ev.h].cache_expire_time < now
  /\ \E r \in 1..Len(requests) :
        /\ requests[r].query_hash = ev.h
        /\ requests[r].outcome = "value"
        /\ ~requests[r].released

\* the step drops the queued query in favour of a new one
IsSupersession == IsDispatchAdmission /\ pending_inline_query_ # NullQuery

\* C8 as stated: a supersession fails and drops the queued request and
\* leaves its cache entry exactly as it was.
SupersessionLeavesEntryUntouched ==
  [][IsSupersession =>
       LET q == pending_inline_query_ IN
       /\ requests'[q.promise].outcome = "error"
       /\ pending_inline_query_' # q
       /\ q.query_hash \in DOMAIN inline_query_results_'
       /\ inline_query_results_'[q.query_hash] = inline_query_results_[q.query_hash]]_vars

\* C8 amended: a supersession fails and drops the queued request and
\* releases its claim: the count of its entry goes down by one (after the
\* new admission's own increment when the fingerprint is the same, and
\* after the release of a cancelled query for that fingerprint); the entry
\* is erased when the count reaches 0 and it is expired, is given an
\* eviction timer when the count reaches 0 and it is not, and keeps its
\* result and cache_expire_time as long as it stays.
SupersessionReleasesClaim ==
  [][IsSupersession =>
       LET q == pending_inline_query_
           e == inline_query_results_[q.query_hash]
           p == Len(requests')
           same == IF requests'[p].query_hash = q.query_hash THEN 1 ELSE 0
           canc == Cardinality({c \in handlers : /\ c \notin handlers'
                                                 /\ c.query_hash = q.query_hash})
           n == e.pending_request_count + same - 1 - canc
       IN /\ requests'[q.promise].outcome = "error"
          /\ requests'[q.promise].completions = 1
          /\ pending_inline_query_' # q
          /\ n >= 0
          /\ IF n = 0 /\ e.cache_expire_time - now < 0
             THEN q.query_hash \notin DOMAIN inline_query_results_'
             ELSE /\ q.query_hash \in DOMAIN inline_query_results_'
                  /\ inline_query_results_'[q.query_hash] =
                       [e EXCEPT !.pending_request_count = n]
                  /\ n = 0 =>
                       /\ q.query_hash \in DOMAIN drop_inline_query_result_timeout_'
                       /\ drop_inline_query_result_timeout_'[q.query_hash] =
                            e.cache_expire_time]_vars

\* a queued request for one fingerprint was superseded by a request for
\* another one, and its entry stays with one claim less
W_SupersededOtherFingerprint ==
  /\ ev.op = "send_inline_query"
  /\ ev.sup # 0
  /\ requests[ev.sup].query_hash # ev.h
  /\ requests[ev.sup].query_hash \in DOMAIN inline_query_results_

\* C9: a remote call is issued only when now >= next_inline_query_time_,
\* sets next_inline_query_time_ to now + INLINE_QUERY_DELAY, and comes at
\* least INLINE_QUERY_DELAY after the previous one.
DispatchSpacing ==
  [][(\E q \in handlers' : q \notin handlers)
       => /\ now >= next_inline_query_time_
          /\ next_inline_query_time_' = now + INLINE_QUERY_DELAY
          /\ \/ last_dispatch_time = -1
             \/ now - last_dispatch_time >= INLINE_QUERY_DELAY]_vars

\* a second remote call has been issued
W_SecondDispatch ==
  /\ ev.disp # 0
  /\ last_dispatch_time = now
  /\ \E r \in 1..Len(requests) :
        /\ r # ev.disp
        /\ requests[r].kind = "dispatch"
        /\ requests[r].outcome = "value" \/ ev.canc = r

\* the most recent request that was placed into the pending slot
LatestDispatchRequest(reqs) ==
  LET S == {r \in 1..Len(reqs) : reqs[r].kind = "dispatch"} IN
  CHOOSE r \in S : \A o \in S : o <= r

\* C10: every query placed into the pending slot replaces the queued one,
\* whatever its fingerprint, and a remote call is always issued for the most
\* recent such query and cancels the call in flight.
LatestRequestWins ==
  [][/\ IsDispatchAdmission =>
          LET p == Len(requests') IN
          /\ pending_inline_query_ # NullQuery =>
               /\ requests'[pending_inline_query_.promise].outcome = "error"
               /\ pending_inline_query_.promise \notin PromisesOf(handlers')
          /\ pending_inline_query_' \in
               {NullQuery, [query_hash |-> requests'[p].query_hash, promise |-> p]}
          /\ \/ pending_inline_query_'.promise = p
             \/ p \in PromisesOf(handlers')
             \/ requests'[p].destroyed
     /\ \A q \in handlers' :
          q \notin handlers =>
            /\ q.promise = LatestDispatchRequest(requests')
            /\ q.query_hash = requests'[q.promise].query_hash
            /\ handlers' = {q}
            /\ \A o \in handlers : requests'[o.promise].outcome = "error"]_vars

\* a new query for the fingerprint of both the queued query and the query in
\* flight superseded the one, cancelled the other and was sent
W_LatestWinsSameFingerprint ==
  /\ ev.op = "send_inline_query"
  /\ ev.sup # 0
  /\ ev.canc # 0
  /\ ev.disp = ev.r
  /\ requests[ev.sup].query_hash = ev.h
  /\ requests[ev.canc].query_hash = ev.h

\* C11 (Scenario B): B asks for F while A's query for F is queued and the
\* dispatch is not yet due: A is failed, B takes the slot, nothing is sent in
\* that step and the wake-up timer stands at next_inline_query_time_; when
\* the timer fires with B queued, B's query is the one call sent, not before
\* next_inline_query_time_; a query once failed is never in flight; entry F
\* exists whenever a query for F is in flight.
ScenarioB ==
  [][/\ (/\ IsSupersession
         /\ requests'[Len(requests')].query_hash = pending_inline_query_.query_hash
         /\ now < next_inline_query_time_)
        => /\ requests'[pending_inline_query_.promise].outcome = "error"
           /\ pending_inline_query_'.promise = Len(requests')
           /\ handlers' = handlers
           /\ timeout_' = next_inline_query_time_
           /\ pending_inline_query_.query_hash \in DOMAIN inline_query_results_'
     /\ (/\ ev'.op = "timeout_expired"
         /\ pending_inline_query_ # NullQuery
         /\ \E a \in 1..Len(requests) :
               /\ a # pending_inline_query_.promise
               /\ requests[a].query_hash = pending_inline_query_.query_hash
               /\ requests[a].kind = "dispatch"
               /\ requests[a].outcome = "error")
        => /\ now >= next_inline_query_time_
           /\ handlers' = {pending_inline_query_}
     /\ \A q \in handlers' :
           /\ requests'[q.promise].outcome = "none"
           /\ q.query_hash \in DOMAIN inline_query_results_']_vars

\* C12 as stated: a remote response, success or failure, neither erases the
\* entry nor changes its pending_request_count.
ResponseLeavesCount ==
  [][ev'.op \in {"on_result", "on_error"}
       => /\ ev'.h \in DOMAIN inline_query_results_'
          /\ inline_query_results_'[ev'.h].pending_request_count =
               inline_query_results_[ev'.h].pending_request_count]_vars

\* C12 amended: a success response neither erases the entry nor changes its
\* count; a failure (error or cancellation) releases the failed request's
\* claim: the count goes down by one (net of an admission for, and of the
\* supersession of a queued query for, the same fingerprint in the same
\* step), the entry is erased when the count reaches 0 and it is expired
\* and otherwise stays with result and cache_expire_time unchanged.
ResponseEffectOnEntry ==
  [][\A q \in handlers :
       q \notin handlers' =>
         LET h == q.query_hash
             e == inline_query_results_[h]
             adm == IF IsDispatchAdmission /\ requests'[Len(requests')].query_hash = h
                    THEN 1 ELSE 0
             sup == IF IsSupersession /\ pending_inline_query_.query_hash = h
                    THEN 1 ELSE 0
             n == e.pending_request_count + adm - sup - 1
         IN IF requests'[q.promise].outcome = "value"
            THEN /\ h \in DOMAIN inline_query_results_'
                 /\ inline_query_results_'[h].pending_request_count =
                      e.pending_request_count
            ELSE /\ requests'[q.promise].outcome = "error"
                 /\ n >= 0
                 /\ IF n = 0 /\ e.cache_expire_time - now < 0
                    THEN h \notin DOMAIN inline_query_results_'
                    ELSE /\ h \in DOMAIN inline_query_results_'
                         /\ inline_query_results_'[h] =
                              [e EXCEPT !.pending_request_count = n]]_vars

\* a remote error released the last claim and the entry was erased
W_ErrorErasedEntry ==
  /\ ev.op = "on_error"
  /\ ev.h \in ev.erased
  /\ ev.h \notin DOMAIN inline_query_results_

\* C13: a success response stores the result and cache_expire_time =
\* now + cache_time, and an admission for an entry with a stored result
\* before its cache_expire_time is answered from the cache.
SuccessStoresTTL ==
  [][/\ ev'.op = "on_result"
        => /\ ev'.h \in DOMAIN inline_query_results_'
           /\ inline_query_results_'[ev'.h].results = ev'.r
           /\ inline_query_results_'[ev'.h].cache_expire_time = now + ev'.ct
     /\ \A h \in Hashes :
          (/\ IsAdmissionOf(h)
           /\ h \in DOMAIN inline_query_results_
           /\ inline_query_results_[h].results # 0
           /\ now < inline_query_results_[h].cache_expire_time)
          => /\ requests'[Len(requests')].kind = "fresh"
             /\ requests'[Len(requests')].outcome = "value"]_vars

\* a result stored after time 0 with a positive cache time answered a
\* later admission
W_FreshFromStoredTTL ==
  /\ ev.op = "send_inline_query"
  /\ ev.fresh
  /\ now >= 1
  /\ inline_query_results_[ev.h].cache_expire_time > now
  /\ inline_query_results_[ev.h].results # 0

\* C14: a failure of a query for F (remote error, cancellation,
\* supersession) writes neither result nor cache_expire_time of entry F and
\* never makes a non-fresh entry fresh.
FailureNotCached ==
  [][\A r \in 1..Len(requests) :
       (/\ requests[r].kind = "dispatch"
        /\ requests[r].outcome = "none"
        /\ requests'[r].outcome = "error")
       => LET h == requests[r].query_hash IN
          /\ h \in DOMAIN inline_query_results_
          /\ h \in DOMAIN inline_query_results_' =>
               /\ inline_query_results_'[h].results = inline_query_results_[h].results
               /\ inline_query_results_'[h].cache_expire_time =
                    inline_query_results_[h].cache_expire_time
               /\ now' < inline_query_results_'[h].cache_expire_time =>
                    now < inline_query_results_[h].cache_expire_time]_vars

\* a query failed for an entry that holds an older result, and the entry stays
W_FailureOnStoredResult ==
  /\ ev.op = "on_error"
  /\ ev.h \in DOMAIN inline_query_results_
  /\ inline_query_results_[ev.h].results # 0
  /\ inline_query_results_[ev.h].results # ev.r

\* C15: a request refused by validation is failed at once and changes
\* neither the cache map nor the pending slot, the query in flight or a timer.
RejectedLeavesState ==
  [][(ev'.op = "send_inline_query" /\ ev'.reject # "none")
       => /\ requests'[Len(requests')].outcome = "error"
          /\ requests'[Len(requests')].completions = 1
          /\ SubSeq(requests', 1, Len(requests)) = requests
          /\ UNCHANGED <<now, inline_query_results_, pending_inline_query_,
                         sent_query_, handlers, next_inline_query_time_, timeout_,
                         drop_inline_query_result_timeout_>>]_vars

\* a request was refused while one query was in flight and one was queued
W_RejectedWhileBusy ==
  /\ ev.op = "send_inline_query"
  /\ ev.reject # "none"
  /\ handlers # {}
  /\ pending_inline_query_ # NullQuery
  /\ inline_query_results_ # EmptyMap

\* the step is the delivery of the eviction timer of fingerprint h
IsDropTimeoutOf(h) ==
  /\ fatal = "none"
  /\ ev'.h = h
  /\ \/ ev'.op = "drop_timeout"
     \/ fatal' \in {"drop timeout: CHECK(it != end)",
                    "drop timeout: CHECK(results != nullptr)",
                    "drop timeout: CHECK(pending_request_count >= 0)"}

\* C16: an eviction timer firing for F while entry F has
\* pending_request_count > 0 does nothing: no abort, the entry stays as it is.
EvictionTimerNoOpWhileHeld ==
  [][\A h \in Hashes :
       (/\ IsDropTimeoutOf(h)
        /\ h \in DOMAIN inline_query_results_
        /\ inline_query_results_[h].pending_request_count > 0)
       => /\ fatal' = "none"
          /\ inline_query_results_' = inline_query_results_]_vars

\* the inputs of a hash computation as the fingerprint is specified to see them
NormalizedInputs(c) ==
  [query |-> trim(c.query), bot_user_id |-> c.bot_user_id, offset |-> c.offset,
   location |-> IF c.need_location
                THEN <<TimesTenThousand(c.user_location.latitude),
                       TimesTenThousand(c.user_location.longitude)>>
                ELSE <<>>]

\* C17: the fingerprint is a function of the trimmed query, the bot, the
\* offset and, only for a bot that needs a location, the location in units
\* of 1e-4: equal normalized inputs give equal fingerprints, and every
\* fingerprint has its top bit cleared.
FingerprintOfNormalizedInputs ==
  /\ \A i, j \in 1..Len(hash_calls) :
        NormalizedInputs(hash_calls[i]) = NormalizedInputs(hash_calls[j])
        => hash_calls[i].query_hash = hash_calls[j].query_hash
  /\ \A i \in 1..Len(hash_calls) :
        /\ hash_calls[i].query_hash >= 0
        /\ hash_calls[i].query_hash < 2 ^ (HashBits - 1)

\* two requests that differ in surrounding spaces and in a location the bot
\* does not need got one fingerprint
W_SameFingerprint ==
  /\ Len(hash_calls) = 2
  /\ hash_calls[1].query # hash_calls[2].query
  /\ hash_calls[1].user_location # hash_calls[2].user_location
  /\ hash_calls[1].user_location.latitude < 0
  /\ ~hash_calls[1].need_location
  /\ NormalizedInputs(hash_calls[1]) = NormalizedInputs(hash_calls[2])
  /\ hash_calls[1].query_hash = hash_calls[2].query_hash

\* the members of a list
Members(ids) == {ids[i] : i \in 1..Len(ids)}

\* C18: the list of recently used bots never holds more than
\* MAX_RECENT_INLINE_BOTS elements, and using a bot that is in the list
\* leaves the size of the list as it was.
RecentListBounded ==
  /\ [](Len(recently_used_bot_user_ids_) <= MAX_RECENT_INLINE_BOTS)
  /\ [][(rev'.op = "use" /\ rev'.id \in Members(recently_used_bot_user_ids_))
          => Len(recently_used_bot_user_ids_') = Len(recently_used_bot_user_ids_)]_vars

\* a bot in the middle of a full list was used and moved
W_UsedMemberOfFullList ==
  /\ rev.op = "use"
  /\ Len(rev.before) = MAX_RECENT_INLINE_BOTS
  /\ rev.id \in Members(rev.before)
  /\ rev.before # recently_used_bot_user_ids_
  /\ recently_used_bots_loaded_ = 2

\* C19: the list loaded by a new manager from the two strings written by
\* save_recently_used_bots is the list that was saved, in the same order,
\* when every saved bot is still a known inline bot with a username.
SaveLoadRoundTrip ==
  (round_trip.phase = "restarted" /\ recently_used_bots_loaded_ = 2)
  => recently_used_bot_user_ids_ = round_trip.ids

\* a full list with usernames of different lengths came back from the binlog
W_RoundTripFullList ==
  /\ round_trip.phase = "restarted"
  /\ recently_used_bots_loaded_ = 2
  /\ Len(round_trip.ids) = MAX_RECENT_INLINE_BOTS
  /\ recently_used_bot_user_ids_ = round_trip.ids
  /\ \E i, j \in Members(round_trip.ids) :
        Len(bot_data[i].username) # Len(bot_data[j].username)

\* C20 (Scenario D) as stated: with capacity 3, using bot 2 on [1,2,3] gives
\* [2,1,3] and using the new bot 4 on [2,1,3] gives [4,1,2].
ScenarioD ==
  [][(/\ MAX_RECENT_INLINE_BOTS = 3
      /\ rev'.op = "use"
      /\ CanUse(recently_used_bot_user_ids_, rev'.id, bot_data))
     => /\ (recently_used_bot_user_ids_ = <<1, 2, 3>> /\ rev'.id = 2)
             => recently_used_bot_user_ids_' = <<2, 1, 3>>
        /\ (recently_used_bot_user_ids_ = <<2, 1, 3>> /\ rev'.id = 4)
             => recently_used_bot_user_ids_' = <<4, 1, 2>>]_vars

\* C20 amended: with capacity 3, using bot 2 on [1,2,3] gives [2,1,3], and
\* using the new bot 4 on [2,1,3] overwrites the last element, [2,1,4], and
\* rotates it to the front: [4,2,1].
ScenarioDAsCoded ==
  [][(/\ MAX_RECENT_INLINE_BOTS = 3
      /\ rev'.op = "use"
      /\ CanUse(recently_used_bot_user_ids_, rev'.id, bot_data))
     => /\ (recently_used_bot_user_ids_ = <<1, 2, 3>> /\ rev'.id = 2)
             => recently_used_bot_user_ids_' = <<2, 1, 3>>
        /\ (recently_used_bot_user_ids_ = <<2, 1, 3>> /\ rev'.id = 4)
             => recently_used_bot_user_ids_' = <<4, 2, 1>>]_vars

\* bot 4 was used on the list [2,1,3]
W_ScenarioD ==
  /\ rev.op = "use"
  /\ rev.id = 4
  /\ rev.before = <<2, 1, 3>>
  /\ recently_used_bot_user_ids_ = <<4, 2, 1>>

\* the list without bot id, the others in their order
Without(ids, id) == SelectSeq(ids, LAMBDA x : x # id)

\* the ids front to back, in decimal, joined by commas
RECURSIVE JoinIds(_)
JoinIds(ids) ==
  IF ids = <<>> THEN <<>>
  ELSE IF Len(ids) = 1 THEN to_string(ids[1])
  ELSE to_string(Head(ids)) \o <<Comma>> \o JoinIds(Tail(ids))

\* C21: once the list is loaded, removing a bot that is in the list deletes
\* it, keeps the order of the others and leaves the persisted id record
\* equal to the comma-joined ids of the list; removing a bot that is not in
\* the list changes neither the list nor the persisted records.
RemovePersists ==
  [][(rev'.op = "remove" /\ recently_used_bots_loaded_ = 2)
     => IF rev'.id \in Members(recently_used_bot_user_ids_)
        THEN /\ recently_used_bot_user_ids_' = Without(recently_used_bot_user_ids_, rev'.id)
             /\ pmc_ids' = JoinIds(recently_used_bot_user_ids_')
        ELSE UNCHANGED <<recently_used_bot_user_ids_, pmc_ids, pmc_usernames>>]_vars

\* C22: an eviction timer firing for F while the cache map has no entry for
\* F does nothing: no abort and no change of the cache map.
EvictionTimerNoOpWhenAbsent ==
  [][\A h \in Hashes :
       (IsDropTimeoutOf(h) /\ h \notin DOMAIN inline_query_results_)
       => /\ fatal' = "none"
          /\ inline_query_results_' = inline_query_results_]_vars

\* requests that hold a claim on their cache entry
Holders ==
  {r \in 1..Len(requests) :
     /\ requests[r].kind \in {"fresh", "dispatch"}
     /\ requests[r].outcome # "error"
     /\ ~requests[r].released}

\* C23: every entry with pending_request_count = 0 has its eviction timeout
\* set, and no request holds a claim on a fingerprint without an entry.
ZeroCountEntryHasTimer ==
  /\ \A h \in DOMAIN inline_query_results_ :
        inline_query_results_[h].pending_request_count = 0
        => h \in DOMAIN drop_inline_query_result_timeout_
  /\ \A r \in Holders : requests[r].query_hash \in DOMAIN inline_query_results_

\* an entry without holders waits for its timer while another fingerprint
\* has been erased
W_ZeroCountWaitsForTimer ==
  /\ \E h \in DOMAIN inline_query_results_ :
        /\ inline_query_results_[h].pending_request_count = 0
        /\ drop_inline_query_result_timeout_[h] > now
  /\ \E g \in Hashes : g \in ev.erased /\ g \notin DOMAIN inline_query_results_

\* C24: a release that brings pending_request_count to 0 while
\* cache_expire_time - now >= 0 keeps the entry, sets the eviction timeout of
\* the fingerprint to the entry's cache_expire_time, replacing an earlier
\* deadline, and returns a copy.
ReleaseArmsTimer ==
  [][\A r \in 1..Len(requests) :
       LET h == requests[r].query_hash IN
       (/\ IsReleaseOf(r)
        /\ inline_query_results_[h].pending_request_count = 1
        /\ inline_query_results_[h].cache_expire_time - now >= 0)
       => /\ h \in DOMAIN inline_query_results_'
          /\ inline_query_results_'[h] =
               [inline_query_results_[h] EXCEPT !.pending_request_count = 0]
          /\ h \in DOMAIN drop_inline_query_result_timeout_'
          /\ drop_inline_query_result_timeout_'[h] =
               inline_query_results_[h].cache_expire_time
          /\ ev'.ret = [obj |-> inline_query_results_[h].results,
                        moved |-> FALSE, some |-> TRUE]]_vars

\* Scenario A: the result stored with a cache time was fetched before it
\* expired: a copy was returned and the timer stands at the expiry
W_ReleaseArmedTimer ==
  /\ ev.op = "get_inline_query_results_object"
  /\ ev.ret.some /\ ~ev.ret.moved
  /\ ev.h \in DOMAIN inline_query_results_
  /\ inline_query_results_[ev.h].pending_request_count = 0
  /\ inline_query_results_[ev.h].cache_expire_time > now
  /\ drop_inline_query_result_timeout_[ev.h] = inline_query_results_[ev.h].cache_expire_time

\* the claims released on fingerprint h by the failures of this step
FailedClaims(h) ==
  Cardinality({r \in 1..Len(requests) :
                 /\ requests[r].query_hash = h
                 /\ requests[r].kind = "dispatch"
                 /\ requests[r].outcome = "none"
                 /\ requests'[r].outcome = "error"})

\* C25: an admission for an absent fingerprint creates the entry
\* {nullptr, -1, 1}; an admission for a present fingerprint adds one to its
\* pending_request_count and leaves results and cache_expire_time; entries of
\* other fingerprints change only by the release of a claim of a query that
\* the same call fails.
AdmissionBookkeeping ==
  [][\A h \in Hashes :
       IsAdmissionOf(h) =>
         /\ h \in DOMAIN inline_query_results_'
         /\ IF h \notin DOMAIN inline_query_results_
            THEN inline_query_results_'[h] = NewEntry
            ELSE inline_query_results_'[h] =
                   [inline_query_results_[h] EXCEPT
                      !.pending_request_count = @ + 1 - FailedClaims(h)]
         /\ \A g \in Hashes \ {h} :
              FailedClaims(g) = 0
              => /\ (g \in DOMAIN inline_query_results_') = (g \in DOMAIN inline_query_results_)
                 /\ g \in DOMAIN inline_query_results_
                      => inline_query_results_'[g] = inline_query_results_[g]]_vars

\* a second claim was counted on an entry that holds a stale result, while
\* another fingerprint has an entry too
W_AdmissionOnPresentEntry ==
  /\ ev.op = "send_inline_query"
  /\ ev.reject = "none"
  /\ ev.h \in DOMAIN inline_query_results_
  /\ inline_query_results_[ev.h].pending_request_count = 2
  /\ inline_query_results_[ev.h].results # 0
  /\ \E g \in DOMAIN inline_query_results_ : g # ev.h

\* C26: an entry without a result has cache_expire_time -1 and is never kept
\* with pending_request_count 0: the release of its last claim erases it.
EmptyResultHasUnknownExpiry ==
  \A h \in DOMAIN inline_query_results_ :
     inline_query_results_[h].results = 0
     => /\ inline_query_results_[h].cache_expire_time = -1
        /\ inline_query_results_[h].pending_request_count > 0

\* the cancellation of the query in flight erased an entry without a result
\* while another entry without a result stays
W_EmptyEntryErased ==
  /\ ev.canc # 0
  /\ requests[ev.canc].query_hash \in ev.erased
  /\ \E h \in DOMAIN inline_query_results_ : inline_query_results_[h].results = 0

\* C27 as stated: once a result is stored in an entry, no later response
\* overwrites the entry's results or cache_expire_time.
StoredResultNeverOverwritten ==
  [][\A h \in DOMAIN inline_query_results_ :
       (inline_query_results_[h].results # 0 /\ h \in DOMAIN inline_query_results_')
       => /\ inline_query_results_'[h].results = inline_query_results_[h].results
          /\ inline_query_results_'[h].cache_expire_time =
               inline_query_results_[h].cache_expire_time]_vars

\* C27 amended: results and cache_expire_time of an entry are written only
\* by a success response for its fingerprint, both together; such a response
\* replaces whatever the entry holds, also a result stored earlier in the
\* same lifetime; no admission, failure, release or timer changes them.
ResultWrittenOnlyBySuccess ==
  [][\A h \in DOMAIN inline_query_results_ :
       h \in DOMAIN inline_query_results_' =>
         \/ /\ inline_query_results_'[h].results = inline_query_results_[h].results
            /\ inline_query_results_'[h].cache_expire_time =
                 inline_query_results_[h].cache_expire_time
         \/ /\ ev'.op = "on_result"
            /\ ev'.h = h
            /\ inline_query_results_'[h].results = ev'.r
            /\ inline_query_results_'[h].cache_expire_time = now + ev'.ct]_vars

\* a response replaced the result that an earlier request had stored in
\* the entry and not yet fetched
W_StoredResultReplaced ==
  /\ ev.op = "on_result"
  /\ ev.h \in DOMAIN inline_query_results_
  /\ inline_query_results_[ev.h].results = ev.r
  /\ inline_query_results_[ev.h].pending_request_count = 2
  /\ \E r \in 1..(ev.r - 1) :
        /\ requests[r].query_hash = ev.h
        /\ requests[r].outcome = "value"
        /\ requests[r].kind = "dispatch"
        /\ ~requests[r].released

\* the step is a call of get_inline_query_results_object for fingerprint h
\* by a caller that holds no claim
IsStrayReleaseOf(h) ==
  /\ fatal = "none"
  /\ ev'.h = h
  /\ ev'.r = 0
  /\ \/ ev'.op = "stray_release"
     \/ fatal' \in {"decrease: CHECK(it != end)",
                    "decrease: CHECK(pending_request_count > 0)"}

\* C28: a release for a fingerprint without an entry, or with an entry whose
\* pending_request_count is 0, aborts the process; it changes no entry and
\* no count becomes negative.
StrayReleaseIsFatal ==
  [][\A h \in Hashes :
       IsStrayReleaseOf(h)
       => /\ fatal' = IF h \in DOMAIN inline_query_results_
                      THEN "decrease: CHECK(pending_request_count > 0)"
                      ELSE "decrease: CHECK(it != end)"
          /\ inline_query_results_' = inline_query_results_
          /\ \A g \in DOMAIN inline_query_results_' :
                inline_query_results_'[g].pending_request_count >= 0]_vars

\* a release on an entry that waits for its timer with count 0 aborted
W_ReleaseOnZeroCount ==
  /\ fatal = "decrease: CHECK(pending_request_count > 0)"
  /\ ev.h \in DOMAIN inline_query_results_
  /\ inline_query_results_[ev.h].pending_request_count = 0
  /\ inline_query_results_[ev.h].results # 0

\* C29: a query leaves the pending slot only by being sent or by being
\* superseded (its promise failed), and while a query waits in the slot the
\* actor's wake-up timeout is set, so that timeout_expired runs loop() again.
PendingLeavesByDispatchOrSupersession ==
  [][/\ (pending_inline_query_ # NullQuery /\ pending_inline_query_' # pending_inline_query_)
        => \/ pending_inline_query_ \in handlers'
           \/ ev'.disp = pending_inline_query_.promise
           \/ requests'[pending_inline_query_.promise].outcome = "error"
     /\ pending_inline_query_' # NullQuery => timeout_' # -1]_vars

\* C30 as stated: using the bot at the front of the list changes nothing;
\* using a bot found elsewhere in the list moves it to the front and keeps
\* the order of the others and the size.
UseMovesMemberToFront ==
  [][(rev'.op = "use" /\ rev'.id \in Members(recently_used_bot_user_ids_))
     => IF recently_used_bot_user_ids_[1] = rev'.id
        THEN recently_used_bot_user_ids_' = recently_used_bot_user_ids_
        ELSE recently_used_bot_user_ids_' =
               <<rev'.id>> \o Without(recently_used_bot_user_ids_, rev'.id)]_vars

\* get_bot_data gives an inline bot with a username
IsUsableBot(id) ==
  /\ have_user(bot_data, id)
  /\ bot_data[id].username # <<>>
  /\ bot_data[id].is_inline

\* C30 amended: using the bot at the front of the list changes nothing;
\* using a bot found elsewhere in the list moves it to the front and keeps
\* the order of the others and the size, when the bot is still a known
\* inline bot with a username; otherwise the list stays as it is.
UseMovesUsableMemberToFront ==
  [][(rev'.op = "use" /\ rev'.id \in Members(recently_used_bot_user_ids_))
     => IF recently_used_bot_user_ids_[1] = rev'.id \/ ~IsUsableBot(rev'.id)
        THEN recently_used_bot_user_ids_' = recently_used_bot_user_ids_
        ELSE /\ recently_used_bot_user_ids_' =
                  <<rev'.id>> \o Without(recently_used_bot_user_ids_, rev'.id)
             /\ Len(recently_used_bot_user_ids_') = Len(recently_used_bot_user_ids_)]_vars

\* the last bot of a full list was used and is now first, the others follow
\* in their order
W_LastMemberMovedToFront ==
  /\ rev.op = "use"
  /\ Len(rev.before) = MAX_RECENT_INLINE_BOTS
  /\ rev.before[MAX_RECENT_INLINE_BOTS] = rev.id
  /\ recently_used_bot_user_ids_ = <<rev.id>> \o Without(rev.before, rev.id)
  /\ rev.ret

\* the list with a new id in front: of a full list the last element goes
WithNewFront(ids, id) ==
  IF Len(ids) = MAX_RECENT_INLINE_BOTS
  THEN <<id>> \o SubSeq(ids, 1, Len(ids) - 1)
  ELSE <<id>> \o ids

\* C31 as stated: using an id that is not in the list puts it in front of the
\* previous elements, of which a full list keeps the first N-1 in their order.
UseAbsentPutsInFront ==
  [][(rev'.op = "use" /\ rev'.id \in BotIds
        /\ rev'.id \notin Members(recently_used_bot_user_ids_))
     => recently_used_bot_user_ids_' =
          WithNewFront(recently_used_bot_user_ids_, rev'.id)]_vars

\* C31 amended: using an id that is not in the list puts it in front of the
\* previous elements, of which a full list keeps the first N-1 in their order,
\* when the bot is a known inline bot with a username; otherwise the list
\* stays as it is.
UseAbsentUsablePutsInFront ==
  [][(rev'.op = "use" /\ rev'.id \in BotIds
        /\ rev'.id \notin Members(recently_used_bot_user_ids_))
     => recently_used_bot_user_ids_' =
          IF IsUsableBot(rev'.id)
          THEN WithNewFront(recently_used_bot_user_ids_, rev'.id)
          ELSE recently_used_bot_user_ids_]_vars

\* a new bot was used on a full list: it is first, the former first two follow
W_AbsentUsedOnFullList ==
  /\ rev.op = "use"
  /\ Len(rev.before) = MAX_RECENT_INLINE_BOTS
  /\ rev.id \notin Members(rev.before)
  /\ recently_used_bot_user_ids_ =
       <<rev.id>> \o SubSeq(rev.before, 1, MAX_RECENT_INLINE_BOTS - 1)

\* use(id) has replaced a member of a full list
UseEvicts ==
  /\ rev'.op = "use"
  /\ Len(recently_used_bot_user_ids_) = MAX_RECENT_INLINE_BOTS
  /\ Members(recently_used_bot_user_ids_) \ Members(recently_used_bot_user_ids_') # {}

\* C32 as stated: when use(id) evicts at capacity, the element that leaves
\* is the previous second-to-last one, and id is the new front.
EvictsSecondToLast ==
  [][UseEvicts
     => /\ Members(recently_used_bot_user_ids_) \ Members(recently_used_bot_user_ids_')
             = {recently_used_bot_user_ids_[MAX_RECENT_INLINE_BOTS - 1]}
        /\ recently_used_bot_user_ids_'[1] = rev'.id]_vars

\* C32 amended: when use(id) evicts at capacity, the element that leaves is
\* the previous last one, whose slot was overwritten with id, and id is the
\* new front; the previous second-to-last element is the new last.
EvictsLast ==
  [][UseEvicts
     => /\ Members(recently_used_bot_user_ids_) \ Members(recently_used_bot_user_ids_')
             = {recently_used_bot_user_ids_[MAX_RECENT_INLINE_BOTS]}
        /\ recently_used_bot_user_ids_'[1] = rev'.id
        /\ recently_used_bot_user_ids_'[MAX_RECENT_INLINE_BOTS]
             = recently_used_bot_user_ids_[MAX_RECENT_INLINE_BOTS - 1]]_vars

\* the former last bot is gone, the former second-to-last is now last
W_LastEvicted ==
  /\ rev.op = "use"
  /\ Len(rev.before) = MAX_RECENT_INLINE_BOTS
  /\ rev.before[MAX_RECENT_INLINE_BOTS] \notin Members(recently_used_bot_user_ids_)
  /\ recently_used_bot_user_ids_[MAX_RECENT_INLINE_BOTS]
       = rev.before[MAX_RECENT_INLINE_BOTS - 1]
  /\ recently_used_bot_user_ids_[1] = rev.id

\* C33: once the list has finished loading, every operation that changes it
\* (use, remove, the load itself) leaves the persisted id record equal to the
\* comma-joined ids of the list, front to back.
PersistedIdsFollowList ==
  [][(/\ recently_used_bots_loaded_' = 2
      /\ rev'.op \in {"use", "remove", "get_recent", "after_get_difference"}
      /\ recently_used_bot_user_ids_' # recently_used_bot_user_ids_)
     => pmc_ids' = JoinIds(recently_used_bot_user_ids_')]_vars

\* a call of load_recently_used_bots finishes the load
LoadFinishes ==
  /\ rev'.op \in {"get_recent", "after_get_difference"}
  /\ recently_used_bots_loaded_ < 2
  /\ recently_used_bots_loaded_' = 2

\* what each name resolves to, in the order of the names; 0 = unresolved
ResolveAll(names) ==
  [i \in 1..Len(names) |-> resolve_dialog_username(bot_data, names[i])]

\* C34 as stated: a load that finds only the legacy username record, no bot
\* having been used before it, gives the list of the ids that the names
\* resolve to, in the order of the names; a load that finds both records
\* empty gives the empty list.
LegacyLoadKeepsResolvable ==
  [][(LoadFinishes /\ recently_used_bot_user_ids_ = <<>> /\ pmc_ids = <<>>)
     => recently_used_bot_user_ids_' =
          SelectSeq(ResolveAll(full_split(pmc_usernames, Comma)),
                    LAMBDA id : id # 0)]_vars

\* C34 amended: a load that finds only the legacy username record, no bot
\* having been used before it, gives the list of the ids that the names
\* resolve to and that are inline bots with a username, in the order of the
\* names; a load that finds both records empty gives the empty list.
LegacyLoadKeepsUsable ==
  [][(LoadFinishes /\ recently_used_bot_user_ids_ = <<>> /\ pmc_ids = <<>>)
     => recently_used_bot_user_ids_' =
          SelectSeq(ResolveAll(full_split(pmc_usernames, Comma)),
                    LAMBDA id : id # 0 /\ IsUsableBot(id))]_vars

\* the legacy record named bots 1 and 2, the name of bot 1 was not resolved,
\* and the load has written the id record of the list it made
W_LegacyLoadSkippedName ==
  /\ rev.op \in {"get_recent", "after_get_difference"}
  /\ rev.loaded = 1
  /\ rev.before = <<>>
  /\ recently_used_bots_loaded_ = 2
  /\ resolve_dialog_username(bot_data, ShortName(1)) = 0
  /\ recently_used_bot_user_ids_ = <<2>>
  /\ pmc_ids = JoinIds(<<2>>)

\* pending_request_count of fingerprint h, 0 without an entry
PendingCount(h) ==
  IF h \in DOMAIN inline_query_results_
  THEN inline_query_results_[h].pending_request_count
  ELSE 0

\* the count of every fingerprint is the number of admitted requests for it
\* that were neither released by their caller nor completed with a failure
PendingCountIsHolders ==
  \A h \in Hashes :
     PendingCount(h) = Cardinality({r \in Holders : requests[r].query_hash = h})

\* each of these requests is still there to be answered and to give its
\* claim back
NoClaimLeaked == \A r \in Holders : ~requests[r].destroyed

\* C35: the pending_request_count of every fingerprint is the number of
\* admitted requests for it that were neither released by their caller nor
\* completed with a failure (0 without an entry), and no claim is leaked.
PendingCountIsOutstandingClaims == PendingCountIsHolders /\ NoClaimLeaked


\* C36: whenever the eviction-timer callback runs for a fingerprint, the
\* cache map has an entry for it and the entry holds a result: neither of the
\* first two CHECKs of the callback fails.
EvictionTimerChecksHold ==
  fatal \notin {"drop timeout: CHECK(it != end)",
                "drop timeout: CHECK(results != nullptr)"}

\* C37: no entry is erased while it is fresh: whenever a release or the
\* eviction-timer callback erases an entry, now >= cache_expire_time of the
\* entry as it was when the erasing call began.
ErasedEntryIsExpired ==
  [][\A h \in ev'.erased :
       /\ h \in DOMAIN inline_query_results_
       /\ now >= inline_query_results_[h].cache_expire_time]_vars

\* the eviction timer has erased an entry whose result and expire time had
\* been written by two success responses, the second one after the entry had
\* been released to count 0 and its timeout set
W_TimerErasedRewrittenEntry ==
  /\ ev.op = "drop_timeout"
  /\ ev.h \in ev.erased
  /\ Cardinality({r \in 1..Len(requests) :
                    /\ requests[r].query_hash = ev.h
                    /\ requests[r].kind = "dispatch"
                    /\ requests[r].outcome = "value"
                    /\ requests[r].released}) >= 2

\* C38: the list of recently used bots never holds the same id twice.
NoDuplicateRecentBots ==
  \A i, j \in 1..Len(recently_used_bot_user_ids_) :
     recently_used_bot_user_ids_[i] = recently_used_bot_user_ids_[j] => i = j

\* the load has merged the persisted ids 1,2 with bot 2, used before the
\* load finished
W_LoadMergedUsedBot ==
  /\ rev.op \in {"get_recent", "after_get_difference"}
  /\ rev.loaded = 1
  /\ recently_used_bots_loaded_ = 2
  /\ rev.before = <<2>>
  /\ recently_used_bot_user_ids_ = <<2, 1>>

\* what get_recent_inline_bots has returned
ReturnedRecentBots ==
  IF rev'.ret THEN recently_used_bot_user_ids_' ELSE <<>>

\* C39: after remove(id) the list returned by get_recent_inline_bots does not
\* hold id as long as id has not been used again; here for the call that
\* follows the removal at once, before or after the load has finished.
RemovedBotStaysRemoved ==
  [][(rev.op = "remove" /\ rev'.op = "get_recent")
     => rev.id \notin Members(ReturnedRecentBots)]_vars

\* the same for a removal from a list that has finished loading
RemovedFromLoadedStaysRemoved ==
  [][(rev.op = "remove" /\ rev.loaded = 2 /\ rev'.op = "get_recent")
     => rev.id \notin Members(ReturnedRecentBots)]_vars

\* the bots of the persisted records, front to back: the ids of the id
\* record, or the ids that the names of the legacy record resolve to
PersistedBots ==
  LET bot_ids == full_split(pmc_ids, Comma) IN
  IF bot_ids # <<>>
  THEN [i \in 1..Len(bot_ids) |-> to_integer(bot_ids[i])]
  ELSE SelectSeq(ResolveAll(full_split(pmc_usernames, Comma)), LAMBDA id : id # 0)

\* the bots used first, then the persisted ones that are not among them, at
\* most MAX_RECENT_INLINE_BOTS in all
MergeOf(used, persisted) ==
  LET rest == SelectSeq(persisted, LAMBDA id : id \notin Members(used))
      all == used \o rest
  IN SubSeq(all, 1, IF Len(all) < MAX_RECENT_INLINE_BOTS
                    THEN Len(all) ELSE MAX_RECENT_INLINE_BOTS)

\* C40: when the load finishes, the bots used before it are in front of the
\* list in their order, the persisted bots that are not among them follow in
\* persisted order, the list is cut to N elements, and the id record is
\* written from that list.
UsedBeforeLoadKept ==
  [][(LoadFinishes /\ recently_used_bot_user_ids_ # <<>>)
     => /\ recently_used_bot_user_ids_' =
             MergeOf(recently_used_bot_user_ids_, PersistedBots)
        /\ pmc_ids' = JoinIds(recently_used_bot_user_ids_')]_vars

\* the list part of C40 for bots that are inline bots with a username when
\* the load finishes, a persisted record being there
UsableUsedBeforeLoadKept ==
  [][(LoadFinishes /\ recently_used_bot_user_ids_ # <<>> /\ PersistedBots # <<>>)
     => /\ recently_used_bot_user_ids_' =
             MergeOf(SelectSeq(recently_used_bot_user_ids_, IsUsableBot),
                     SelectSeq(PersistedBots, IsUsableBot))
        /\ pmc_ids' = JoinIds(recently_used_bot_user_ids_')]_vars

====
